---- MODULE Spec2Model ----
(***************************************************************************)
(* Metalang99 core: the term evaluator (recursion engine, reduction rules  *)
(* and continuations), partial application, and choice types, as           *)
(* documented in src/metalang99/stub_expanded.c and used by                *)
(* src/metalang99/main.c and src/metalang99/stub.c.                        *)
(*                                                                         *)
(* Data is preprocessor token sequences.  A token is a record              *)
(*   [t, s, n, xs]: an identifier or punctuator (t = "id", spelling s), a  *)
(* numeral (t = "num", value n), a comma, or a parenthesised group         *)
(* (t = "paren", contents xs).  Terms are the parenthesised groups         *)
(* (0v, ...), (0args, op, ...), (0callUneval, op, ...), (0fatal, f, ...),  *)
(* (0abort, ...) and the end mark (0end, ~).                               *)
(*                                                                         *)
(* `prog' is the program under evaluation, `fired' the history of the      *)
(* metafunction bodies expanded so far, `reduced' the number of terms the  *)
(* reduction rules have reduced and `stages' the number of stages of the   *)
(* expansion chain that have fired.  A program may hold two evaluation     *)
(* requests, as stub.c does; `request' is the one being evaluated.         *)
(***************************************************************************)
EXTENDS Integers, Sequences, FiniteSets, TLC

VARIABLES prog, k, k_cx, folder, acc, tail, lvl, pass, status, fired, reduced,
          stages, request

vars ==
    <<prog, k, k_cx, folder, acc, tail, lvl, pass, status, fired, reduced, stages,
      request>>

(***************************************************************************)
(* Program constants.                                                      *)
(***************************************************************************)
RecLevels == 1024

UnrollPasses == 16

ML99_NAT_MAX == 255

(***************************************************************************)
(* Tokens.                                                                 *)
(***************************************************************************)
Id(s) == [t |-> "id", s |-> s, n |-> 0, xs |-> <<>>]

Num(n) == [t |-> "num", s |-> "", n |-> n, xs |-> <<>>]

Comma == [t |-> "comma", s |-> ",", n |-> 0, xs |-> <<>>]

Paren(x) == [t |-> "paren", s |-> "", n |-> 0, xs |-> x]

\* The arguments of a macro invocation: the token sequence cut at its
\* top-level commas.  An empty sequence is one empty argument.
RECURSIVE SplitAux(_, _, _)
SplitAux(toks, cur, done) ==
    IF toks = <<>> THEN Append(done, cur)
    ELSE IF Head(toks).t = "comma"
         THEN SplitAux(Tail(toks), <<>>, Append(done, cur))
         ELSE SplitAux(Tail(toks), Append(cur, Head(toks)), done)

Split(toks) == SplitAux(toks, <<>>, <<>>)

\* __VA_ARGS__ built from argument groups: the groups separated by commas.
RECURSIVE Join(_)
Join(groups) ==
    IF groups = <<>> THEN <<>>
    ELSE IF Len(groups) = 1 THEN groups[1]
    ELSE groups[1] \o <<Comma>> \o Join(Tail(groups))

\* The arguments from the i-th on, as passed through `...'.
Rest(groups, i) == Join(SubSeq(groups, i, Len(groups)))

\* ML99_PRIV_IS_UNTUPLE: the argument is not of the form (...).
IsUntuple(g) == ~(Len(g) = 1 /\ g[1].t = "paren")

IsIdent(g) == Len(g) = 1 /\ g[1].t = "id"

IsNum(g) == Len(g) = 1 /\ g[1].t = "num"

(***************************************************************************)
(* Term constructors of the language.                                      *)
(***************************************************************************)
v(x) == <<Paren(<<Id("0v"), Comma>> \o x)>>

ML99_call(op, args) == <<Paren(<<Id("0args"), Comma, Id(op), Comma>> \o args)>>

\* An invocation with unevaluated arguments that wraps them as a literal and
\* goes the way of ML99_call.
ML99_callUneval_viaArgs(ident, args) == ML99_call(ident, v(args))

ML99_callUneval(ident, args) ==
    <<Paren(<<Id("0callUneval"), Comma, Id(ident), Comma>> \o args)>>

ML99_fatal(f, message) ==
    <<Paren(<<Id("0fatal"), Comma, Id(f), Comma>> \o message)>>

ML99_abort(terms) == <<Paren(<<Id("0abort"), Comma>> \o terms)>>

ML99_TERMS(terms) == Join(terms)

\* The mark that ends every term sequence handed to the machine.
EndMark == <<Paren(<<Id("0end"), Comma, Id("~")>>), Comma, Id("~")>>

ML99_appl(f, a) == ML99_call("ML99_appl", Join(<<f, a>>))

ML99_appl3(f, a, b, c) == ML99_call("ML99_appl3", Join(<<f, a, b, c>>))

ML99_appl4(f, a, b, c, d) == ML99_call("ML99_appl4", Join(<<f, a, b, c, d>>))

ML99_appl2(f, a, b) == ML99_call("ML99_appl2", Join(<<f, a, b>>))

ML99_compose(f, g) == ML99_call("ML99_compose", Join(<<f, g>>))

ML99_choice(tag, data) == ML99_call("ML99_choice", Join(<<tag, data>>))

ML99_match(choice, matcher) == ML99_call("ML99_match", Join(<<choice, matcher>>))

ML99_matchWithArgs(choice, matcher, args) ==
    ML99_call("ML99_matchWithArgs", Join(<<choice, matcher, args>>))

ML99_add3(x, y, z) == ML99_call("ML99_add3", Join(<<x, y, z>>))

(***************************************************************************)
(* Arity specifiers: <f>_ARITY.  0 stands for "no arity specifier".        *)
(***************************************************************************)
Arity(f) ==
    CASE f = "F" -> 2
      [] f = "F1" -> 1
      [] f = "G" -> 1
      [] f = "T3" -> 3
      [] f = "T2" -> 2
      [] f = "TM" -> 1
      [] f = "LOOP" -> 1
      [] f = "WAIT" -> 2
      [] f = "ML99_appl" -> 2
      [] f = "ML99_appl2" -> 3
      [] f = "ML99_appl3" -> 4
      [] f = "ML99_appl4" -> 5
      [] f = "T4" -> 4
      [] f = "ML99_compose" -> 2
      [] f = "ML99_PRIV_compose" -> 3
      [] f = "ML99_choice" -> 2
      [] f = "ML99_match" -> 2
      [] f = "ML99_matchWithArgs" -> 3
      [] f = "ML99_add3" -> 3
      [] f = "ML99_assertIsTuple" -> 1
      [] f = "ML99_assertIsNat" -> 1
      [] f = "ML99_untuple" -> 1
      [] f = "ML99_inc" -> 1
      [] f = "FT" -> 1
      [] f = "FN" -> 1
      [] f = "BOXED_NUMBER" -> 2
      [] f = "BOXED_NUMBER_INIT" -> 2
      [] f = "ML99_cons" -> 2
      [] f = "ML99_listReplicate" -> 2
      [] f = "ML99_listMapI" -> 2
      [] f = "ML99_listMap" -> 2
      [] f = "ML99_listUnwrap" -> 1
      [] OTHER -> 0

(***************************************************************************)
(* Metafunction bodies: <op>_IMPL(args).  Each takes the argument groups   *)
(* of the invocation and yields the token sequence the macro expands to.   *)
(***************************************************************************)

\* An invocation the preprocessor cannot expand (no such macro, or a wrong
\* number of arguments) stays in the text as written.
Unexpanded(op, args) == <<Id(op \o "_IMPL"), Paren(args)>>

\* An application that makes a closure without counting the argument group
\* it has just received.
ML99_PRIV_APPL_F_noDecrement(f, rest) ==
    IF ~IsIdent(f) \/ Arity(f[1].s) = 0
    THEN <<Id("ML99_PRIV_APPL_F"), Paren(Join(<<f, rest>>))>>
    ELSE IF Arity(f[1].s) = 1
         THEN ML99_callUneval(f[1].s, rest)
         ELSE v(<<Paren(Join(<<<<Num(Arity(f[1].s))>>, f, rest>>))>>)

\* An application that makes a closure whatever the arity, also the closure
\* of arity 0 for a metafunction of arity 1.
ML99_PRIV_APPL_F_closureAlways(f, rest) ==
    IF ~IsIdent(f) \/ Arity(f[1].s) = 0
    THEN <<Id("ML99_PRIV_APPL_F"), Paren(Join(<<f, rest>>))>>
    ELSE v(<<Paren(Join(<<<<Num(Arity(f[1].s) - 1)>>, f, rest>>))>>)

\* `f' is an identifier: fire it when its arity is 1, else make a closure.
ML99_PRIV_APPL_F(f, rest) ==
    IF ~IsIdent(f) \/ Arity(f[1].s) = 0
    THEN <<Id("ML99_PRIV_APPL_F"), Paren(Join(<<f, rest>>))>>
    ELSE IF Arity(f[1].s) = 1
         THEN ML99_callUneval(f[1].s, rest)
         ELSE v(<<Paren(Join(<<<<Num(Arity(f[1].s) - 1)>>, f, rest>>))>>)

\* A closure application that puts the new arguments before the environment.
ML99_PRIV_APPL_CLOSURE_envLast(closure, rest) ==
    LET c == Split(closure[1].xs)
    IN  IF Len(c) < 3 \/ ~IsNum(c[1]) \/ ~IsIdent(c[2])
        THEN <<Id("ML99_PRIV_APPL_CLOSURE"), Paren(Join(<<closure, rest>>))>>
        ELSE IF c[1][1].n = 1
             THEN ML99_callUneval(c[2][1].s, Join(<<rest, Rest(c, 3)>>))
             ELSE v(<<Paren(Join(<<<<Num(c[1][1].n - 1)>>, c[2], rest, Rest(c, 3)>>))>>)

\* A closure application that hands over the environment twice when it fires.
ML99_PRIV_APPL_CLOSURE_envTwice(closure, rest) ==
    LET c == Split(closure[1].xs)
    IN  IF Len(c) < 3 \/ ~IsNum(c[1]) \/ ~IsIdent(c[2])
        THEN <<Id("ML99_PRIV_APPL_CLOSURE"), Paren(Join(<<closure, rest>>))>>
        ELSE IF c[1][1].n = 1
             THEN ML99_callUneval(c[2][1].s, Join(<<Rest(c, 3), Rest(c, 3), rest>>))
             ELSE v(<<Paren(Join(<<<<Num(c[1][1].n - 1)>>, c[2], Rest(c, 3), rest>>))>>)

\* A closure application that extends the environment and keeps the arity.
ML99_PRIV_APPL_CLOSURE_noDecrement(closure, rest) ==
    LET c == Split(closure[1].xs)
    IN  IF Len(c) < 3 \/ ~IsNum(c[1]) \/ ~IsIdent(c[2])
        THEN <<Id("ML99_PRIV_APPL_CLOSURE"), Paren(Join(<<closure, rest>>))>>
        ELSE IF c[1][1].n = 1
             THEN ML99_callUneval(c[2][1].s, Join(<<Rest(c, 3), rest>>))
             ELSE v(<<Paren(Join(<<<<Num(c[1][1].n)>>, c[2], Rest(c, 3), rest>>))>>)

\* `closure' is (arity, f, env...): fire f on env and the new arguments when
\* the arity is 1, else extend the environment.
ML99_PRIV_APPL_CLOSURE(closure, rest) ==
    LET c == Split(closure[1].xs)
    IN  IF Len(c) < 3 \/ ~IsNum(c[1]) \/ ~IsIdent(c[2])
        THEN <<Id("ML99_PRIV_APPL_CLOSURE"), Paren(Join(<<closure, rest>>))>>
        ELSE IF c[1][1].n = 1
             THEN ML99_callUneval(c[2][1].s, Join(<<Rest(c, 3), rest>>))
             ELSE v(<<Paren(Join(<<<<Num(c[1][1].n - 1)>>, c[2], Rest(c, 3), rest>>))>>)

ML99_appl_IMPL(f, rest) ==
    IF IsUntuple(f) THEN ML99_PRIV_APPL_F(f, rest)
    ELSE ML99_PRIV_APPL_CLOSURE(f, rest)

ML99_appl2_IMPL(f, a, b) == ML99_appl(ML99_appl_IMPL(f, a), v(b))

\* A three-argument application that hands over its first two arguments in
\* the other order.
ML99_appl3_IMPL_swapped(f, a, b, c) == ML99_appl(ML99_appl2_IMPL(f, b, a), v(c))

ML99_appl3_IMPL(f, a, b, c) == ML99_appl(ML99_appl2_IMPL(f, a, b), v(c))

ML99_appl4_IMPL(f, a, b, c, d) == ML99_appl(ML99_appl3_IMPL(f, a, b, c), v(d))

\* A composition that applies f first and feeds its result to g.
ML99_PRIV_compose_IMPL_fFirst(f, g, x) == ML99_appl(v(g), ML99_appl_IMPL(f, x))

ML99_PRIV_compose_IMPL(f, g, x) == ML99_appl(v(f), ML99_appl_IMPL(g, x))

ML99_compose_IMPL(f, g) == ML99_appl2_IMPL(<<Id("ML99_PRIV_compose")>>, f, g)

\* A choice value is (tag, data...).
ML99_choice_IMPL(tag, data) == v(<<Paren(Join(<<tag, data>>))>>)

ML99_choiceTag(choice) == Split(choice[1].xs)[1]

ML99_choiceData(choice) == Rest(Split(choice[1].xs), 2)

\* ML99_cat of a matcher prefix and a tag: the pasted identifier.
ML99_PRIV_CAT(a, b) == a[1].s \o b[1].s

IsChoice(choice) ==
    /\ ~IsUntuple(choice)
    /\ Len(Split(choice[1].xs)) >= 2
    /\ IsIdent(ML99_choiceTag(choice))

\* A match that hands the whole choice value, tag included, to the handler.
ML99_match_IMPL_keepTag(choice, matcher) ==
    IF ~IsChoice(choice) \/ ~IsIdent(matcher)
    THEN <<Id("ML99_PRIV_CAT"), Paren(Join(<<matcher, choice>>))>>
    ELSE ML99_callUneval(ML99_PRIV_CAT(matcher, ML99_choiceTag(choice)),
                         choice[1].xs)

\* A dispatch that applies the handler as ML99_appl does: it looks the arity
\* of the handler up, and a handler without an arity specifier is left as
\* the text of the application.
ML99_match_IMPL_byArity(choice, matcher) ==
    IF ~IsChoice(choice) \/ ~IsIdent(matcher)
    THEN <<Id("ML99_PRIV_CAT"), Paren(Join(<<matcher, choice>>))>>
    ELSE IF Arity(ML99_PRIV_CAT(matcher, ML99_choiceTag(choice))) = 0
         THEN <<Id("ML99_PRIV_APPL_F"),
                Paren(Join(<<<<Id(ML99_PRIV_CAT(matcher, ML99_choiceTag(choice)))>>,
                             ML99_choiceData(choice)>>))>>
         ELSE ML99_callUneval(ML99_PRIV_CAT(matcher, ML99_choiceTag(choice)),
                              ML99_choiceData(choice))

ML99_match_IMPL(choice, matcher) ==
    IF ~IsChoice(choice) \/ ~IsIdent(matcher)
    THEN <<Id("ML99_PRIV_CAT"), Paren(Join(<<matcher, choice>>))>>
    ELSE ML99_callUneval(ML99_PRIV_CAT(matcher, ML99_choiceTag(choice)),
                         ML99_choiceData(choice))

\* A match that puts the extra arguments before the data.
ML99_matchWithArgs_IMPL_argsFirst(choice, matcher, args) ==
    IF ~IsChoice(choice) \/ ~IsIdent(matcher)
    THEN <<Id("ML99_PRIV_CAT"), Paren(Join(<<matcher, choice>>))>>
    ELSE ML99_callUneval(ML99_PRIV_CAT(matcher, ML99_choiceTag(choice)),
                         Join(<<args, ML99_choiceData(choice)>>))

ML99_matchWithArgs_IMPL(choice, matcher, args) ==
    IF ~IsChoice(choice) \/ ~IsIdent(matcher)
    THEN <<Id("ML99_PRIV_CAT"), Paren(Join(<<matcher, choice>>))>>
    ELSE ML99_callUneval(ML99_PRIV_CAT(matcher, ML99_choiceTag(choice)),
                         Join(<<ML99_choiceData(choice), args>>))

ML99_add3_IMPL(x, y, z) ==
    IF IsNum(x) /\ IsNum(y) /\ IsNum(z)
    THEN v(<<Num((x[1].n + y[1].n + z[1].n) % (ML99_NAT_MAX + 1))>>)
    ELSE <<Id("ML99_PRIV_ADD3"), Paren(Join(<<x, y, z>>))>>

\* main.c: the binary tree example.
leaf(x) == ML99_choice(v(<<Id("leaf")>>), x)

node(lhs, data, rhs) == ML99_choice(v(<<Id("node")>>), Join(<<lhs, data, rhs>>))

sumTree(tree) == ML99_match(tree, v(<<Id("sumTree_")>>))

sumTree_leaf_IMPL(x) == v(x)

\* A node handler that leaves the node's own data out of the sum.
sumTree_node_IMPL_noData(lhs, data, rhs) ==
    ML99_add3(sumTree(v(lhs)), v(<<Num(0)>>), sumTree(v(rhs)))

sumTree_node_IMPL(lhs, data, rhs) == ML99_add3(sumTree(v(lhs)), v(data), sumTree(v(rhs)))

(***************************************************************************)
(* Lists (metalang99/list.h): the choice values (nil, ~) and (cons, x, xs) *)
(* and the metafunctions over them that stub.c uses.                       *)
(***************************************************************************)
ML99_nil == ML99_callUneval("ML99_nil", <<>>)

ML99_cons(x, xs) == ML99_call("ML99_cons", Join(<<x, xs>>))

ML99_listReplicate(n, item) == ML99_call("ML99_listReplicate", Join(<<n, item>>))

ML99_listMapI(f, list) == ML99_call("ML99_listMapI", Join(<<f, list>>))

ML99_listMap(f, list) == ML99_call("ML99_listMap", Join(<<f, list>>))

ML99_listUnwrap(list) == ML99_call("ML99_listUnwrap", list)

ML99_nil_IMPL == v(<<Paren(<<Id("nil"), Comma, Id("~")>>)>>)

ML99_cons_IMPL(x, xs) == v(<<Paren(Join(<<<<Id("cons")>>, x, xs>>))>>)

\* ML99_inc on a numeral: NAT_MAX wraps to 0.
ML99_PRIV_INC(i) == <<Num((i[1].n + 1) % (ML99_NAT_MAX + 1))>>

\* n is matched as a natural number: zero, or the successor of n - 1.
ML99_listReplicate_IMPL(n, item) ==
    IF ~IsNum(n) THEN <<Id("ML99_PRIV_NAT_MATCH"), Paren(Join(<<n, item>>))>>
    ELSE IF n[1].n = 0
         THEN ML99_callUneval("ML99_PRIV_listReplicate_Z", item)
         ELSE ML99_callUneval("ML99_PRIV_listReplicate_S",
                              Join(<<<<Num(n[1].n - 1)>>, item>>))

ML99_PRIV_listReplicate_Z_IMPL == ML99_nil

ML99_PRIV_listReplicate_S_IMPL(n, item) ==
    ML99_cons(v(item), ML99_listReplicate_IMPL(n, item))

ML99_PRIV_listMapIAux_IMPL(f, list, i) ==
    ML99_matchWithArgs_IMPL(list, <<Id("ML99_PRIV_listMapI_")>>, Join(<<f, i>>))

ML99_listMapI_IMPL(f, list) == ML99_PRIV_listMapIAux_IMPL(f, list, <<Num(0)>>)

ML99_PRIV_listMapI_nil_IMPL == ML99_nil_IMPL

\* A map that hands every element the index it started with.
ML99_PRIV_listMapI_cons_IMPL_sameIndex(x, xs, f, i) ==
    IF ~IsNum(i) THEN <<Id("ML99_PRIV_INC"), Paren(i)>>
    ELSE ML99_cons(ML99_appl2_IMPL(f, x, i),
                   ML99_PRIV_listMapIAux_IMPL(f, xs, i))

ML99_PRIV_listMapI_cons_IMPL(x, xs, f, i) ==
    IF ~IsNum(i) THEN <<Id("ML99_PRIV_INC"), Paren(i)>>
    ELSE ML99_cons(ML99_appl2_IMPL(f, x, i),
                   ML99_PRIV_listMapIAux_IMPL(f, xs, ML99_PRIV_INC(i)))

ML99_listMap_IMPL(f, list) ==
    ML99_matchWithArgs_IMPL(list, <<Id("ML99_PRIV_listMap_")>>, f)

ML99_PRIV_listMap_nil_IMPL == ML99_nil_IMPL

\* A map whose applications add to the closure they are handed: the next
\* element is mapped with the closure that has captured this one.
ML99_PRIV_listMap_cons_IMPL_capturing(x, xs, f) ==
    ML99_cons(ML99_appl_IMPL(f, x),
              ML99_listMap_IMPL(IF IsUntuple(f) THEN f
                                ELSE <<Paren(Join(<<f[1].xs, x>>))>>, xs))

ML99_PRIV_listMap_cons_IMPL(x, xs, f) ==
    ML99_cons(ML99_appl_IMPL(f, x), ML99_listMap_IMPL(f, xs))

ML99_listUnwrap_IMPL(list) ==
    ML99_match_IMPL(list, <<Id("ML99_PRIV_listUnwrap_")>>)

ML99_PRIV_listUnwrap_nil_IMPL == v(<<>>)

ML99_PRIV_listUnwrap_cons_IMPL(x, xs) ==
    ML99_TERMS(<<v(x), ML99_listUnwrap_IMPL(xs)>>)

\* stub.c: the pasted identifier _##i.
Pasted(i) ==
    IF IsNum(i) THEN Id("_" \o ToString(i[1].n))
    ELSE IF IsIdent(i) THEN Id("_" \o i[1].s) ELSE Id("_")

BOXED_NUMBER_COUNT == 128

BOXED_NUMBER_IMPL(n, i) ==
    v(<<Id("int"), Id("*"), Pasted(i), Id("="),
        Paren(<<Id("int"), Id("*")>>), Id("calloc"),
        Paren(<<Num(1), Comma, Id("sizeof"), Paren(<<Id("int")>>)>>), Id(";")>>)

BOXED_NUMBER_INIT_IMPL(n, i) == v(<<Id("*"), Pasted(i), Id("=")>> \o i \o <<Id(";")>>)

(***************************************************************************)
(* Guard operations (metalang99/tuple.h, metalang99/nat.h): they result    *)
(* in emptiness or emit a fatal error.                                     *)
(***************************************************************************)
ML99_assertIsTuple(x) == ML99_call("ML99_assertIsTuple", x)

ML99_assertIsNat(x) == ML99_call("ML99_assertIsNat", x)

ML99_untuple(x) == ML99_call("ML99_untuple", x)

ML99_inc(x) == ML99_call("ML99_inc", x)

\* The message of the tuple mismatch error.
NotTupleMessage(x) ==
    x \o <<Id("must"), Id("be"), Paren(<<Id("x1"), Comma, Id("..."), Comma, Id("xn")>>)>>

\* The message of the number mismatch error.
NotNatMessage(x) ==
    x \o <<Id("must"), Id("be"), Id("within"), Id("["), Num(0), Id(";"),
           Num(ML99_NAT_MAX), Id("]")>>

\* A tuple guard that hands a tuple on instead of resulting in emptiness.
ML99_assertIsTuple_IMPL_leaky(x) ==
    IF IsUntuple(x) THEN ML99_fatal("ML99_assertIsTuple", NotTupleMessage(x))
    ELSE v(x)

ML99_assertIsTuple_IMPL(x) ==
    IF IsUntuple(x) THEN ML99_fatal("ML99_assertIsTuple", NotTupleMessage(x))
    ELSE v(<<>>)

\* A number guard that lets everything pass.
ML99_assertIsNat_IMPL_noCheck(x) == v(<<>>)

ML99_assertIsNat_IMPL(x) ==
    IF IsNum(x) /\ x[1].n \in 0..ML99_NAT_MAX THEN v(<<>>)
    ELSE ML99_fatal("ML99_assertIsNat", NotNatMessage(x))

ML99_untuple_IMPL(x) ==
    IF IsUntuple(x) THEN ML99_fatal("ML99_untuple", NotTupleMessage(x))
    ELSE v(x[1].xs)

ML99_inc_IMPL(x) ==
    IF IsNum(x) THEN v(ML99_PRIV_INC(x)) ELSE <<Id("ML99_PRIV_INC"), Paren(x)>>

\* tuple.h, nat.h: the examples of the guards (both named F there).
FT_IMPL(x) == ML99_TERMS(<<ML99_assertIsTuple(v(x)), ML99_untuple(v(x))>>)

FN_IMPL(x) == ML99_TERMS(<<ML99_assertIsNat(v(x)), ML99_inc(v(x))>>)

\* The user metafunctions of the examples.
F_IMPL(x, y) == v(x \o <<Id("+")>> \o y)

F1_IMPL(x) == v(<<Paren(x \o <<Id("+"), Num(1)>>)>>)

G_IMPL(x) == v(<<Paren(x \o <<Id("*"), Num(8)>>)>>)

T3_IMPL(x, y, z) == v(x \o <<Id("~")>> \o y \o <<Id("~")>> \o z)

\* A metafunction of four parameters.
T4_IMPL(x, y, z, w) ==
    v(x \o <<Id("~")>> \o y \o <<Id("~")>> \o z \o <<Id("~")>> \o w)

\* A metafunction of three parameters applied in two groups (arity 2).
T2_IMPL(x, y, z) == v(x \o <<Id("~")>> \o y \o <<Id("~")>> \o z)

\* A metafunction that expands to more than one term.
TM_IMPL(x) == ML99_TERMS(<<v(<<Num(1)>>), v(x), v(<<Num(2)>>)>>)

\* A metafunction whose body calls itself again: it never converges.
LOOP_IMPL(x) == ML99_call("LOOP", v(x))

\* A metafunction that calls itself hi * (NAT_MAX + 1) + lo times more and
\* then results in emptiness.
WAIT_IMPL(hi, lo) ==
    IF ~IsNum(hi) \/ ~IsNum(lo) THEN <<Id("ML99_PRIV_DEC"), Paren(Join(<<hi, lo>>))>>
    ELSE IF lo[1].n > 0
         THEN ML99_callUneval("WAIT", <<hi[1], Comma, Num(lo[1].n - 1)>>)
         ELSE IF hi[1].n > 0
              THEN ML99_callUneval("WAIT", <<Num(hi[1].n - 1), Comma,
                                             Num(ML99_NAT_MAX)>>)
              ELSE v(<<>>)

\* A handler of the family MATCH_: it pastes its name and its arguments.
MATCH_IMPL(tag, args) == v(<<Id(tag), Paren(args)>>)

\* The handlers of the family MATCH_ a program may declare.
Handlers == {"MATCH_A", "MATCH_B", "MATCH_C"}

\* The macros op_IMPL a program that declares the handlers `decl' defines.
Body(decl, op, args) ==
    LET a == Split(args)
        n == Len(a)
    IN  CASE op = "F" /\ n = 2 -> F_IMPL(a[1], a[2])
          [] op = "F1" /\ n = 1 -> F1_IMPL(a[1])
          [] op = "G" /\ n = 1 -> G_IMPL(a[1])
          [] op = "T3" /\ n = 3 -> T3_IMPL(a[1], a[2], a[3])
          [] op = "T2" /\ n = 3 -> T2_IMPL(a[1], a[2], a[3])
          [] op = "TM" /\ n = 1 -> TM_IMPL(a[1])
          [] op = "LOOP" /\ n = 1 -> LOOP_IMPL(a[1])
          [] op = "WAIT" /\ n = 2 -> WAIT_IMPL(a[1], a[2])
          [] op = "ML99_appl" /\ n >= 2 -> ML99_appl_IMPL(a[1], Rest(a, 2))
          [] op = "ML99_appl2" /\ n = 3 -> ML99_appl2_IMPL(a[1], a[2], a[3])
          [] op = "ML99_appl3" /\ n = 4 ->
                ML99_appl3_IMPL(a[1], a[2], a[3], a[4])
          [] op = "ML99_appl4" /\ n = 5 ->
                ML99_appl4_IMPL(a[1], a[2], a[3], a[4], a[5])
          [] op = "T4" /\ n = 4 -> T4_IMPL(a[1], a[2], a[3], a[4])
          [] op = "ML99_compose" /\ n = 2 -> ML99_compose_IMPL(a[1], a[2])
          [] op = "ML99_PRIV_compose" /\ n = 3 ->
                ML99_PRIV_compose_IMPL(a[1], a[2], a[3])
          [] op = "ML99_choice" /\ n >= 2 -> ML99_choice_IMPL(a[1], Rest(a, 2))
          [] op = "ML99_match" /\ n = 2 -> ML99_match_IMPL(a[1], a[2])
          [] op = "ML99_matchWithArgs" /\ n >= 3 ->
                ML99_matchWithArgs_IMPL(a[1], a[2], Rest(a, 3))
          [] op = "ML99_add3" /\ n = 3 -> ML99_add3_IMPL(a[1], a[2], a[3])
          [] op = "sumTree_leaf" /\ n = 1 -> sumTree_leaf_IMPL(a[1])
          [] op = "sumTree_node" /\ n = 3 -> sumTree_node_IMPL(a[1], a[2], a[3])
          [] op = "ML99_nil" -> ML99_nil_IMPL
          [] op = "ML99_cons" /\ n = 2 -> ML99_cons_IMPL(a[1], a[2])
          [] op = "ML99_listReplicate" /\ n = 2 ->
                ML99_listReplicate_IMPL(a[1], a[2])
          [] op = "ML99_PRIV_listReplicate_Z" /\ n = 1 ->
                ML99_PRIV_listReplicate_Z_IMPL
          [] op = "ML99_PRIV_listReplicate_S" /\ n = 2 ->
                ML99_PRIV_listReplicate_S_IMPL(a[1], a[2])
          [] op = "ML99_listMapI" /\ n = 2 -> ML99_listMapI_IMPL(a[1], a[2])
          [] op = "ML99_PRIV_listMapI_nil" -> ML99_PRIV_listMapI_nil_IMPL
          [] op = "ML99_PRIV_listMapI_cons" /\ n = 4 ->
                ML99_PRIV_listMapI_cons_IMPL(a[1], a[2], a[3], a[4])
          [] op = "ML99_listMap" /\ n = 2 -> ML99_listMap_IMPL(a[1], a[2])
          [] op = "ML99_PRIV_listMap_nil" -> ML99_PRIV_listMap_nil_IMPL
          [] op = "ML99_PRIV_listMap_cons" /\ n = 3 ->
                ML99_PRIV_listMap_cons_IMPL(a[1], a[2], a[3])
          [] op = "ML99_listUnwrap" /\ n = 1 -> ML99_listUnwrap_IMPL(a[1])
          [] op = "ML99_PRIV_listUnwrap_nil" /\ n = 1 ->
                ML99_PRIV_listUnwrap_nil_IMPL
          [] op = "ML99_PRIV_listUnwrap_cons" /\ n = 2 ->
                ML99_PRIV_listUnwrap_cons_IMPL(a[1], a[2])
          [] op = "ML99_assertIsTuple" /\ n = 1 -> ML99_assertIsTuple_IMPL(a[1])
          [] op = "ML99_assertIsNat" /\ n = 1 -> ML99_assertIsNat_IMPL(a[1])
          [] op = "ML99_untuple" /\ n = 1 -> ML99_untuple_IMPL(a[1])
          [] op = "ML99_inc" /\ n = 1 -> ML99_inc_IMPL(a[1])
          [] op = "FT" /\ n = 1 -> FT_IMPL(a[1])
          [] op = "FN" /\ n = 1 -> FN_IMPL(a[1])
          [] op = "BOXED_NUMBER" /\ n = 2 -> BOXED_NUMBER_IMPL(a[1], a[2])
          [] op = "BOXED_NUMBER_INIT" /\ n = 2 ->
                BOXED_NUMBER_INIT_IMPL(a[1], a[2])
          [] op \in Handlers /\ op \in decl -> MATCH_IMPL(op, args)
          [] OTHER -> Unexpanded(op, args)

\* A dispatch with a default: an undeclared handler expands to nothing.
Impl_defaultHandler(decl, op, args) ==
    IF op \in Handlers \ decl THEN v(<<>>) ELSE Body(decl, op, args)

\* The expansion of op_IMPL(args).
Impl(decl, op, args) == Body(decl, op, args)

(***************************************************************************)
(* The abstract machine.  A machine state m holds the parameters of        *)
(* ML99_PRIV_EVAL_MATCH (continuation k, its context k_cx, the folder, the *)
(* accumulator, the remaining terms), the position in the expansion chain  *)
(* (ML99_PRIV_REC_<lvl> of unroll pass `pass') and the choice the last     *)
(* stage made.  k_cx is kept as a stack, innermost context first.          *)
(***************************************************************************)
REC_STOP == "ML99_PRIV_REC_STOP"

K_callUneval == "ML99_PRIV_EVAL_0callUneval_K"

K_v == "ML99_PRIV_EVAL_0v_K"

\* ML99_EVAL(term): the machine before its first stage.
ML99_EVAL(term) ==
    [k |-> REC_STOP, k_cx |-> <<>>, folder |-> "0fspace", acc |-> <<>>,
     tail |-> Join(<<term, EndMark>>), lvl |-> 0, pass |-> 0,
     status |-> "0continue", fired |-> <<>>, reduced |-> 0]

\* The head of the remaining terms and what follows it.
HeadTerm(m) == Split(m.tail)[1]

TailTerms(m) == Rest(Split(m.tail), 2)

\* ML99_PRIV_TERM_MATCH: the head is the term (tag, ...).
IsTerm(g, tag) ==
    /\ Len(g) = 1
    /\ g[1].t = "paren"
    /\ Len(g[1].xs) >= 2
    /\ g[1].xs[1] = Id(tag)
    /\ g[1].xs[2] = Comma

TermArgs(g) == SubSeq(g[1].xs, 3, Len(g[1].xs))

TermTags == {"0v", "0args", "0callUneval", "0fatal", "0abort", "0end"}

\* A fold that separates with commas whatever the folder.
Fold_alwaysComma(f, a, x) == a \o <<Comma>> \o x

\* ML99_PRIV_EVAL_0fspace / ML99_PRIV_EVAL_0fcomma.
Fold(f, a, x) == IF f = "0fcomma" THEN a \o <<Comma>> \o x ELSE a \o x

\* The accumulator of a comma fold starts with an empty item; the
\* continuations take it as their `_emptiness' parameter.
Accumulated(f, a) ==
    IF f = "0fcomma" /\ a # <<>> /\ a[1] = Comma THEN Tail(a) ELSE a

Running(m) == m.status = "0continue" /\ m.pass < UnrollPasses

\* ML99_PRIV_REC_NEXT: stage lvl hands over to stage lvl + 1; the last stage
\* of a pass yields a deferred ML99_PRIV_REC_0 for the next pass of
\* ML99_PRIV_REC_UNROLL_AUX, and after the last pass nothing expands it.
\* A chain in which one stage invokes the stage after the next.
NextLvl_skip(m) ==
    IF m.lvl + 1 = RecLevels THEN 0
    ELSE IF m.lvl = 7 THEN m.lvl + 2 ELSE m.lvl + 1

NextLvl(m) == IF m.lvl + 1 = RecLevels THEN 0 ELSE m.lvl + 1

\* A chain that does not count its passes.
NextPass_uncounted(m) == m.pass

NextPass(m) == IF m.lvl + 1 = RecLevels THEN m.pass + 1 ELSE m.pass

\* A chain whose last stage reports the exhaustion as a fatal error.
Stage_fatalOnExhaustion(m, choice) ==
    [m EXCEPT !.lvl = NextLvl(m), !.pass = NextPass(m),
              !.status = IF choice = "0continue" /\ NextPass(m) = UnrollPasses
                         THEN "fatal" ELSE choice,
              !.acc = IF choice = "0continue" /\ NextPass(m) = UnrollPasses
                      THEN <<Id("ML99_PRIV_FATAL_ERROR"),
                             Paren(<<Id("ML99_EVAL"), Comma, Id("exhausted")>>)>>
                      ELSE @]

Stage(m, choice) ==
    [m EXCEPT !.lvl = NextLvl(m), !.pass = NextPass(m),
              !.status = IF choice = "0continue" /\ NextPass(m) = UnrollPasses
                         THEN "exhausted" ELSE choice]

\* The history `fired' keeps the first MaxFired expansions.
MaxFired == 8

\* ML99_PRIV_EVAL_0callUneval_K: expand op_IMPL(args) in the context
\* (ck, ckcx, cf, cacc, ctail).  A body of one term is pasted before the
\* tail (K_0); a body of many terms is evaluated and accumulated first (K_1).
\* An expansion that uses up the definition of the operation: an operation
\* that has fired before is found undefined.
CallUnevalK_reclaim(decl, m, ck, ckcx, cf, cacc, ctail, op, args) ==
    LET body == IF \E i \in 1..Len(m.fired) : m.fired[i].op = op
                THEN Unexpanded(op, args)
                ELSE Impl(decl, op, args)
        f2 == IF body = Unexpanded(op, args) \/ Len(m.fired) >= MaxFired
              THEN m.fired
              ELSE Append(m.fired, [op |-> op, args |-> args])
    IN  IF Len(Split(body)) = 1
        THEN [m EXCEPT !.k = ck, !.k_cx = ckcx, !.folder = cf, !.acc = cacc,
                       !.tail = Join(<<body, ctail>>), !.fired = f2]
        ELSE [m EXCEPT !.k = K_v,
                       !.k_cx = <<[k |-> ck, folder |-> cf, acc |-> cacc,
                                   tail |-> ctail, op |-> ""]>> \o ckcx,
                       !.folder = cf, !.acc = <<>>,
                       !.tail = Join(<<body, EndMark>>), !.fired = f2]

\* The expansion is a single term: it is pasted with the rest of the tail.
ML99_PRIV_EVAL_0callUneval_K_0(m, ck, ckcx, cf, cacc, ctail, body) ==
    [m EXCEPT !.k = ck, !.k_cx = ckcx, !.folder = cf, !.acc = cacc,
              !.tail = Join(<<body, ctail>>)]

\* An evaluation of many terms that forgets what was accumulated before.
ML99_PRIV_EVAL_0callUneval_K_1_fresh(m, ck, ckcx, cf, cacc, ctail, body) ==
    [m EXCEPT !.k = K_v,
              !.k_cx = <<[k |-> ck, folder |-> cf, acc |-> <<>>,
                          tail |-> ctail, op |-> ""]>> \o ckcx,
              !.folder = cf, !.acc = <<>>,
              !.tail = Join(<<body, EndMark>>)]

\* The expansion is many terms: they are evaluated and accumulated first.
ML99_PRIV_EVAL_0callUneval_K_1(m, ck, ckcx, cf, cacc, ctail, body) ==
    [m EXCEPT !.k = K_v,
              !.k_cx = <<[k |-> ck, folder |-> cf, acc |-> cacc,
                          tail |-> ctail, op |-> ""]>> \o ckcx,
              !.folder = cf, !.acc = <<>>,
              !.tail = Join(<<body, EndMark>>)]

CallUnevalK(decl, m, ck, ckcx, cf, cacc, ctail, op, args) ==
    LET body == Impl(decl, op, args)
        f2 == IF body = Unexpanded(op, args) \/ Len(m.fired) >= MaxFired
              THEN m.fired
              ELSE Append(m.fired, [op |-> op, args |-> args])
    IN  IF Len(Split(body)) = 1
        THEN ML99_PRIV_EVAL_0callUneval_K_0([m EXCEPT !.fired = f2], ck, ckcx, cf,
                                            cacc, ctail, body)
        ELSE ML99_PRIV_EVAL_0callUneval_K_1([m EXCEPT !.fired = f2], ck, ckcx, cf,
                                            cacc, ctail, body)

\* A value rule that matches a term of any tag.
G_0v_anyTerm(m) ==
    /\ Running(m) /\ m.tail # <<>>
    /\ \E tag \in TermTags \ {"0end"} : IsTerm(HeadTerm(m), tag)

\* (0v, ...): fold the value into the accumulator.
G_0v(m) == Running(m) /\ m.tail # <<>> /\ IsTerm(HeadTerm(m), "0v")

\* A value rule that submits its arguments for evaluation when they have
\* the form of a term.
R_0v_resubmit(m) ==
    LET x == TermArgs(HeadTerm(m))
    IN  IF \E tag \in TermTags : IsTerm(x, tag)
        THEN Stage([m EXCEPT !.tail = Join(<<x, TailTerms(m)>>),
                             !.reduced = @ + 1], "0continue")
        ELSE Stage([m EXCEPT !.acc = Fold(m.folder, m.acc, x),
                             !.tail = TailTerms(m), !.reduced = @ + 1],
                   "0continue")

\* A value rule that puts the value before what has been accumulated.
R_0v_prepend(m) ==
    Stage([m EXCEPT !.acc = Fold(m.folder, TermArgs(HeadTerm(m)), m.acc),
                    !.tail = TailTerms(m), !.reduced = @ + 1], "0continue")

R_0v(m) ==
    Stage([m EXCEPT !.acc = Fold(m.folder, m.acc, TermArgs(HeadTerm(m))),
                    !.tail = TailTerms(m), !.reduced = @ + 1], "0continue")

\* (0args, op, ...): evaluate the arguments under the comma folder, with the
\* call of op as the continuation.
G_0args(m) ==
    /\ Running(m) /\ m.tail # <<>> /\ IsTerm(HeadTerm(m), "0args")
    /\ Len(Split(TermArgs(HeadTerm(m)))) >= 2
    /\ IsIdent(Split(TermArgs(HeadTerm(m)))[1])

\* A call that fires the operation on its arguments as they are written.
R_0args_lazy(m) ==
    LET a == Split(TermArgs(HeadTerm(m)))
    IN  Stage(CallUnevalK({}, [m EXCEPT !.reduced = @ + 1], m.k, m.k_cx,
                          m.folder, m.acc, TailTerms(m), a[1][1].s, Rest(a, 2)),
              "0continue")

R_0args(m) ==
    LET a == Split(TermArgs(HeadTerm(m)))
    IN  Stage([m EXCEPT !.k = K_callUneval,
                        !.k_cx = <<[k |-> m.k, folder |-> m.folder, acc |-> m.acc,
                                    tail |-> TailTerms(m), op |-> a[1][1].s]>>
                                 \o m.k_cx,
                        !.folder = "0fcomma", !.acc = <<>>,
                        !.tail = Join(<<Rest(a, 2), EndMark>>),
                        !.reduced = @ + 1], "0continue")

\* (0callUneval, op, ...): call op with the arguments as written.
G_0callUneval(m) ==
    /\ Running(m) /\ m.tail # <<>> /\ IsTerm(HeadTerm(m), "0callUneval")
    /\ Len(Split(TermArgs(HeadTerm(m)))) >= 2
    /\ IsIdent(Split(TermArgs(HeadTerm(m)))[1])

R_0callUneval(decl, m) ==
    LET a == Split(TermArgs(HeadTerm(m)))
    IN  Stage(CallUnevalK(decl, [m EXCEPT !.reduced = @ + 1], m.k, m.k_cx,
                          m.folder, m.acc, TailTerms(m), a[1][1].s, Rest(a, 2)),
              "0continue")

\* (0fatal, f, message): stop with the error; the message is not evaluated.
G_0fatal(m) == Running(m) /\ m.tail # <<>> /\ IsTerm(HeadTerm(m), "0fatal")

\* A fatal error that is reported into the output while the evaluation
\* goes on with the terms that follow.
R_0fatal_continue(m) ==
    Stage([m EXCEPT !.acc = Fold(m.folder, m.acc,
                                 <<Id("ML99_PRIV_FATAL_ERROR"),
                                   Paren(TermArgs(HeadTerm(m)))>>),
                    !.tail = TailTerms(m), !.reduced = @ + 1], "0continue")

\* A fatal error whose message is evaluated, as the arguments of an abort
\* are, when it consists of terms.
R_0fatal_evaluated(m) ==
    LET a == Split(TermArgs(HeadTerm(m)))
    IN  IF Len(a) >= 2 /\ \A i \in 2..Len(a) : \E tag \in TermTags : IsTerm(a[i], tag)
        THEN Stage([m EXCEPT !.k = REC_STOP, !.k_cx = <<>>,
                             !.folder = "0fspace", !.acc = <<>>,
                             !.tail = Join(<<Rest(a, 2), EndMark>>),
                             !.reduced = @ + 1], "0continue")
        ELSE Stage([m EXCEPT !.k = REC_STOP, !.k_cx = <<>>,
                             !.acc = <<Id("ML99_PRIV_FATAL_ERROR"),
                                       Paren(TermArgs(HeadTerm(m)))>>,
                             !.tail = <<>>, !.reduced = @ + 1], "fatal")

R_0fatal(m) ==
    Stage([m EXCEPT !.k = REC_STOP, !.k_cx = <<>>,
                    !.acc = <<Id("ML99_PRIV_FATAL_ERROR"),
                              Paren(TermArgs(HeadTerm(m)))>>,
                    !.tail = <<>>, !.reduced = @ + 1], "fatal")

\* (0abort, ...): drop the continuation and the tail, evaluate the arguments.
G_0abort(m) == Running(m) /\ m.tail # <<>> /\ IsTerm(HeadTerm(m), "0abort")

\* An abort that evaluates its arguments in place and goes on with the
\* continuation and the terms that follow.
R_0abort_keepTail(m) ==
    Stage([m EXCEPT !.tail = Join(<<TermArgs(HeadTerm(m)), TailTerms(m)>>),
                    !.reduced = @ + 1], "0continue")

R_0abort(m) ==
    Stage([m EXCEPT !.k = REC_STOP, !.k_cx = <<>>, !.folder = "0fspace",
                    !.acc = <<>>,
                    !.tail = Join(<<TermArgs(HeadTerm(m)), EndMark>>),
                    !.reduced = @ + 1], "0continue")

\* (0end, ~): the terms are consumed; continue with k.
G_0end(m) == Running(m) /\ m.tail # <<>> /\ IsTerm(HeadTerm(m), "0end")

R_0end(m) == Stage([m EXCEPT !.tail = <<>>], "0continue")

\* The continuation ML99_PRIV_REC_STOP: the engine halts with the result.
G_REC_STOP(m) == Running(m) /\ m.tail = <<>> /\ m.k = REC_STOP

\* A stop continuation that hands over to the next stage all the same.
R_REC_STOP_handsOver(m) == Stage(m, "0continue")

R_REC_STOP(m) == Stage(m, "0stop")

\* The continuation of (0args, op, ...): call op on the evaluated arguments.
G_0callUneval_K(m) == Running(m) /\ m.tail = <<>> /\ m.k = K_callUneval

R_0callUneval_K(decl, m) ==
    LET c == m.k_cx[1]
    IN  Stage(CallUnevalK(decl, m, c.k, Tail(m.k_cx), c.folder, c.acc, c.tail,
                          c.op, Accumulated(m.folder, m.acc)), "0continue")

\* The continuation of a body of many terms: paste what they accumulated.
G_0v_K(m) == Running(m) /\ m.tail = <<>> /\ m.k = K_v

R_0v_K(m) ==
    LET c == m.k_cx[1]
    IN  Stage([m EXCEPT !.k = c.k, !.k_cx = Tail(m.k_cx), !.folder = c.folder,
                        !.acc = Fold(c.folder, c.acc,
                                     Accumulated(m.folder, m.acc)),
                        !.tail = c.tail], "0continue")

\* The head is no term: the text is left as it stands and no stage matches.
G_Improper(m) ==
    /\ Running(m) /\ m.tail # <<>>
    /\ \/ \A tag \in TermTags : ~IsTerm(HeadTerm(m), tag)
       \/ /\ \/ IsTerm(HeadTerm(m), "0args")
             \/ IsTerm(HeadTerm(m), "0callUneval")
          /\ \/ Len(Split(TermArgs(HeadTerm(m)))) < 2
             \/ ~IsIdent(Split(TermArgs(HeadTerm(m)))[1])

R_Improper(m) == [m EXCEPT !.status = "improper"]

\* One stage of the machine: the rule that matches, if any.
StepM(decl, m) ==
    CASE G_0v(m) -> R_0v(m)
      [] G_0args(m) -> R_0args(m)
      [] G_0callUneval(m) -> R_0callUneval(decl, m)
      [] G_0fatal(m) -> R_0fatal(m)
      [] G_0abort(m) -> R_0abort(m)
      [] G_0end(m) -> R_0end(m)
      [] G_REC_STOP(m) -> R_REC_STOP(m)
      [] G_0callUneval_K(m) -> R_0callUneval_K(decl, m)
      [] G_0v_K(m) -> R_0v_K(m)
      [] G_Improper(m) -> R_Improper(m)
      [] OTHER -> m

\* The machine after at most `fuel' stages.
RECURSIVE RunM(_, _, _)
RunM(decl, m, fuel) ==
    IF fuel = 0 \/ m.status # "0continue" THEN m
    ELSE RunM(decl, StepM(decl, m), fuel - 1)

\* The evaluation of a term that converges within MaxRun stages.
MaxRun == 80

Run(decl, term) == RunM(decl, ML99_EVAL(term), MaxRun)

(***************************************************************************)
(* Input programs.  A program is a record: the term handed to ML99_EVAL,   *)
(* the handlers it declares, and what it was built from (kind, op, tag,    *)
(* argument groups gs, extra arguments, reference term ref).               *)
(***************************************************************************)
Prog(kind, decl, term, ref, op, tag, gs, extra) ==
    [kind |-> kind, decl |-> decl, term |-> term, ref |-> ref, op |-> op,
     tag |-> tag, gs |-> gs, extra |-> extra]

\* Argument groups: one token, a numeral, nothing, two arguments, a tuple,
\* two tokens.
Groups ==
    {<<Id("a")>>, <<Num(1)>>, <<>>, <<Id("a"), Comma, Id("b")>>,
     <<Paren(<<Id("a"), Comma, Num(2)>>)>>, <<Id("a"), Id("b")>>}

\* f applied to the groups gs one at a time.
RECURSIVE ApplChain(_, _)
ApplChain(f, gs) ==
    IF gs = <<>> THEN f
    ELSE ApplChain(ML99_appl(f, v(Head(gs))), Tail(gs))

\* f invoked once with all the groups.
CallAll(f, gs) == ML99_call(f, Join([i \in 1..Len(gs) |-> v(gs[i])]))

MaxArity == 3

ApplOps == {"F1", "F", "T2", "T3"}

ApplPrograms ==
    {Prog("appl", {}, ApplChain(v(<<Id(f)>>), gs), CallAll(f, gs), f, "", gs, <<>>) :
        f \in ApplOps, gs \in UNION {[1..n -> Groups] : n \in 1..MaxArity}}

\* Choice values of the tags A, B matched against the family MATCH_, by
\* programs declaring any subset of the handlers.
Tags == {"A", "B"}

Matcher == <<Id("MATCH_")>>

MatchPrograms ==
    {Prog("match", decl,
          ML99_match(ML99_choice(v(<<Id(tag)>>), v(data)), v(Matcher)),
          <<>>, "MATCH_" \o tag, tag, <<data>>, <<>>) :
        decl \in SUBSET Handlers, tag \in Tags, data \in Groups}

MatchWithArgsPrograms ==
    {Prog("matchWithArgs", decl,
          ML99_matchWithArgs(ML99_choice(v(<<Id(tag)>>), v(data)), v(Matcher),
                             v(extra)),
          <<>>, "MATCH_" \o tag, tag, <<data>>, extra) :
        decl \in {{}, {"MATCH_A"}, Handlers}, tag \in Tags, data \in Groups,
        extra \in Groups}

\* Two metafunctions of arity 1 composed and applied to one argument.
ComposePrograms ==
    {Prog("compose", {},
          ML99_appl(ML99_compose(v(<<Id(f)>>), v(<<Id(g)>>)), v(x)),
          ML99_call(f, ML99_call(g, v(x))), f, g, <<x>>, <<>>) :
        f \in {"F1", "G"}, g \in {"F1", "G"}, x \in Groups}

\* Literal sequences: the argument groups, names of metafunctions, and
\* tokens that have the form of terms and of macro invocations.
Literals ==
    Groups \cup
    {<<Id("F")>>, <<Id("ML99_appl"), Comma, Id("F1")>>,
     v(<<Id("a")>>), ML99_call("F1", v(<<Id("a")>>)),
     ML99_fatal("F", <<Id("no")>>),
     Join(<<v(<<Num(1)>>), ML99_call("F1", v(<<Num(7)>>))>>),
     <<Id("F1_IMPL"), Paren(<<Id("a")>>)>>}

LiteralPrograms ==
    {Prog("literal", {}, v(x), <<>>, "", "", <<x>>, <<>>) : x \in Literals}

\* Programs of every other shape: several top-level terms, a body of many
\* terms, a fatal error, an abort, an argument that is no term.
CoverPrograms ==
    {Prog("seq", {}, Join(<<v(<<Id("abc"), Id("~"), Num(123)>>),
                           ML99_call("F", v(<<Num(1), Comma, Num(2)>>))>>),
          <<>>, "F", "", <<>>, <<>>),
     Prog("terms", {}, Join(<<v(<<Id("a")>>), ML99_call("TM", v(<<Id("x")>>)),
                             v(<<Id("b")>>)>>), <<>>, "TM", "", <<>>, <<>>),
     Prog("terms", {}, ML99_call("T3", ML99_call("TM", v(<<Id("x")>>))),
          <<>>, "T3", "", <<>>, <<>>),
     Prog("fatal", {}, Join(<<v(<<Id("a")>>),
                             ML99_fatal("F", <<Id("the"), Id("description")>>),
                             v(<<Id("b")>>)>>), <<>>, "F", "", <<>>, <<>>),
     Prog("abort", {}, ML99_call("F1", ML99_abort(v(<<Num(123)>>))),
          <<>>, "F1", "", <<>>, <<>>),
     Prog("improper", {}, Join(<<v(<<Id("a")>>), <<Num(123)>>>>),
          <<>>, "", "", <<>>, <<>>)}

\* Programs that never converge.
LoopPrograms ==
    {Prog("loop", {}, ML99_call("LOOP", v(<<Id("a")>>)), <<>>, "LOOP", "", <<>>, <<>>)}

\* Applications that stop short of the arity of f.
PartialPrograms == {p \in ApplPrograms : Len(p.gs) < Arity(p.op)}

\* The program that converges after n stages, n >= 6: WAIT calling itself
\* n - 6 times more, then two literals.
WaitProgram(n) ==
    Join(<<ML99_callUneval("WAIT", <<Num((n - 6) \div (ML99_NAT_MAX + 1)), Comma,
                                     Num((n - 6) % (ML99_NAT_MAX + 1))>>),
           v(<<Id("a")>>), v(<<Id("b")>>)>>)

\* Programs that need the whole chain of stages, one stage more, and three
\* more.
Overruns == {0, 1, 3}

WaitPrograms ==
    {Prog("wait", {}, WaitProgram(RecLevels * UnrollPasses + d), <<>>, "WAIT", "",
          <<<<Num(d)>>>>, <<>>) : d \in Overruns}

\* The program that never converges, after one literal.
ShiftedLoopPrograms ==
    {Prog("loop", {}, Join(<<v(<<Id("b")>>), ML99_call("LOOP", v(<<Id("a")>>))>>),
          <<>>, "LOOP", "shifted", <<>>, <<>>)}

\* Metafunctions invoked on one literal argument group: of each arity, with
\* a body of many terms, with a guard that may fail, and one that is not
\* declared.
UnevalOps == {"F1", "G", "F", "T3", "TM", "FN", "ML99_inc", "H"}

UnevalGroups == Groups \cup {<<Id("a"), Comma, Num(2), Comma, Id("c")>>, <<Num(7)>>}

\* ML99_callUneval(op, a) next to ML99_call(op, v(a)), as the whole program
\* and as an argument of a call between two literals.
UnevalPrograms ==
    {Prog("uneval", {}, ML99_callUneval(op, a), ML99_call(op, v(a)), op, "top",
          <<a>>, <<>>) : op \in UnevalOps, a \in UnevalGroups}
    \cup
    {Prog("uneval", {},
          Join(<<v(<<Id("p")>>), ML99_call("G", ML99_callUneval(op, a)),
                 v(<<Id("q")>>)>>),
          Join(<<v(<<Id("p")>>), ML99_call("G", ML99_call(op, v(a))),
                 v(<<Id("q")>>)>>), op, "arg", <<a>>, <<>>) :
        op \in UnevalOps, a \in UnevalGroups}

\* Single arguments: a token, a numeral, nothing, a tuple.
SingleArgs ==
    {<<Id("a")>>, <<Num(1)>>, <<>>, <<Paren(<<Id("a"), Comma, Num(2)>>)>>}

\* What is applied: the name of a metafunction of each arity, and a closure
\* that a first application has made.
Applicands ==
    {v(<<Id(f)>>) : f \in {"F1", "F", "T3", "T4"}}
        \cup {ML99_appl(v(<<Id("T4")>>), v(<<Id("z")>>)),
              ML99_appl(v(<<Id("T3")>>), v(<<Id("z")>>))}

\* ML99_appl2, ML99_appl3, ML99_appl4 on f and the arguments xs.
ApplN(f, xs) ==
    CASE Len(xs) = 2 -> ML99_appl2(f, v(xs[1]), v(xs[2]))
      [] Len(xs) = 3 -> ML99_appl3(f, v(xs[1]), v(xs[2]), v(xs[3]))
      [] Len(xs) = 4 -> ML99_appl4(f, v(xs[1]), v(xs[2]), v(xs[3]), v(xs[4]))

\* The fixed-arity forms next to the nested single applications.
ApplNPrograms ==
    {Prog("applN", {}, ApplN(f, xs), ApplChain(f, xs), "", "", xs, <<>>) :
        f \in Applicands, xs \in UNION {[1..n -> SingleArgs] : n \in 2..4}}

\* The closure (arity, f, env...) as a value.
Closure(arity, f, env) == <<Paren(Join(<<<<Num(arity)>>, <<Id(f)>>, env>>))>>

\* Argument groups of the applications: a token, a numeral, two arguments,
\* nothing.
ChainGroups == {<<Id("a")>>, <<Num(1)>>, <<Id("a"), Comma, Id("b")>>, <<>>}

ChainOps == {"F1", "G", "TM", "F", "T2", "T3", "T4"}

\* A metafunction name applied to no more groups than its arity, one group at
\* a time.
ChainPrograms ==
    UNION {{Prog("chain", {}, ApplChain(v(<<Id(f)>>), gs), <<>>, f, "", gs, <<>>) :
                gs \in UNION {[1..n -> ChainGroups] : n \in 1..Arity(f)}} :
           f \in ChainOps}

\* Environments of one to three arguments.
Environments == UNION {[1..n -> {<<Id("x")>>, <<Num(2)>>, <<>>}] : n \in 1..3}

\* A closure (n, f, env...) applied to one more group.
ClosurePrograms ==
    {Prog("closure", {}, ML99_appl(v(Closure(n, f, Join(env))), v(g)), <<>>, f, "",
          <<g>>, <<[arity |-> n, env |-> Join(env)]>>) :
        f \in {"F", "T3", "T4"}, n \in 1..3, env \in Environments, g \in ChainGroups}

BasePrograms ==
    {p \in ApplPrograms : Len(p.gs) = Arity(p.op)}
        \cup MatchPrograms \cup MatchWithArgsPrograms \cup ComposePrograms
        \cup LiteralPrograms \cup CoverPrograms

\* The result of a successful evaluation submitted again: as it is, and
\* wrapped as a literal.
AgainPrograms ==
    {Prog("again", p.decl, Run(p.decl, p.term).acc, p.term, "", "", <<>>, <<>>) :
        p \in {q \in BasePrograms : Run(q.decl, q.term).status = "0stop"}}

WrappedAgainPrograms ==
    {Prog("wrapped", p.decl, v(p.term), p.ref, "", "", <<>>, <<>>) :
        p \in AgainPrograms}

Programs == BasePrograms \cup AgainPrograms \cup WrappedAgainPrograms

\* main.c: the tree of seven nodes holding 1..7.
TREE ==
    node(node(leaf(v(<<Num(1)>>)), v(<<Num(2)>>), leaf(v(<<Num(3)>>))),
         v(<<Num(4)>>),
         node(leaf(v(<<Num(5)>>)), v(<<Num(6)>>), leaf(v(<<Num(7)>>))))

\* The binary trees of depth at most d whose nodes hold, in order from the
\* left, the multiples scale * (off + 1), scale * (off + 2), ...: for each,
\* its term, the number of its nodes and the sum of its values.
MaxDepth == 2

Scales == {1, 2}

RECURSIVE TreesFrom(_, _, _)
TreesFrom(d, off, scale) ==
    LET leaves == {[term |-> leaf(v(<<Num(scale * (off + 1))>>)), n |-> 1,
                    sum |-> scale * (off + 1)]}
    IN  IF d = 0 THEN leaves
        ELSE leaves \cup
             UNION {{[term |-> node(l.term, v(<<Num(scale * (off + l.n + 1))>>),
                                    r.term),
                      n |-> l.n + 1 + r.n,
                      sum |-> l.sum + scale * (off + l.n + 1) + r.sum] :
                        r \in TreesFrom(d - 1, off + l.n + 1, scale)} :
                    l \in TreesFrom(d - 1, off, scale)}

TreePrograms ==
    {Prog("tree", {}, sumTree(t.term), <<Num(t.sum)>>, "sumTree", "", <<>>, <<>>) :
        t \in UNION {TreesFrom(MaxDepth, 0, scale) : scale \in Scales}}

\* stub.c: a metafunction of (item, index) mapped with its index over a
\* list of `n' zeros, and the result unwrapped (ML99_LIST_EVAL).
MaxCount == 130

Counts == {0, 1, 2, 3, BOXED_NUMBER_COUNT, MaxCount}

\* What the metafunction op yields for the item 0 at index i.
Output(op, i) == TermArgs(Impl({}, op, <<Num(0), Comma, Num(i)>>))

\* The outputs for the indices 0 .. n - 1, in this order (every output of
\* one metafunction has the same number of tokens).
Outputs(op, n) ==
    LET len == Len(Output(op, 0))
    IN  [j \in 1..(n * len) |-> Output(op, (j - 1) \div len)[((j - 1) % len) + 1]]

ListPrograms ==
    {Prog("mapI", {},
          ML99_listUnwrap(ML99_listMapI(v(<<Id(op)>>),
                                        ML99_listReplicate(v(<<Num(n)>>),
                                                           v(<<Num(0)>>)))),
          <<>>, op, "", <<<<Num(n)>>>>, <<>>) :
        op \in {"BOXED_NUMBER", "BOXED_NUMBER_INIT"}, n \in Counts}

\* Error messages: plain words, the name of a metafunction, the tokens of a
\* macro invocation, of a term, of an invocation as it is written, several
\* arguments, nothing.
Messages ==
    {<<Id("the"), Id("description")>>, <<Id("G")>>,
     <<Id("G_IMPL"), Paren(<<Id("a")>>)>>, ML99_call("G", v(<<Id("a")>>)),
     <<Id("ML99_call"), Paren(<<Id("G"), Comma, Id("v"), Paren(<<Id("a")>>)>>)>>,
     <<Id("a"), Comma, Id("b")>>, <<>>}

\* What is evaluated before the fatal error of a program is reached.
BeforeFatal == Join(<<v(<<Id("a")>>), ML99_call("F1", v(<<Id("x")>>))>>)

\* A fatal error among the top-level terms, among the arguments of a call,
\* and emitted by a guard in the body of a metafunction; G is called to the
\* right of each.
FatalPrograms ==
    {Prog("fatalAt", {},
          Join(<<BeforeFatal, ML99_fatal("F", msg),
                 ML99_call("G", v(<<Id("y")>>)), v(<<Id("b")>>)>>),
          BeforeFatal, "F", "top", <<msg>>, <<>>) : msg \in Messages}
    \cup
    {Prog("fatalAt", {},
          Join(<<ML99_call("T3", Join(<<BeforeFatal, ML99_fatal("F", msg),
                                        ML99_call("G", v(<<Id("y")>>))>>)),
                 ML99_call("G", v(<<Id("z")>>))>>),
          BeforeFatal, "F", "arg", <<msg>>, <<>>) : msg \in Messages}
    \cup
    {Prog("fatalAt", {},
          Join(<<BeforeFatal, ML99_call("FN", v(x)),
                 ML99_call("G", v(<<Id("y")>>))>>),
          BeforeFatal, "ML99_assertIsNat", "body", <<NotNatMessage(x)>>, <<>>) :
        x \in {<<Id("blah")>>, <<Id("G")>>, <<Paren(<<Id("a"), Comma, Num(2)>>)>>}}

\* What is no tuple, and what is no natural number.
NonTuples == {<<Id("a")>>, <<Num(1)>>, <<Id("a"), Id("b")>>, <<>>}

NonNats ==
    {<<Id("blah")>>, <<Num(ML99_NAT_MAX + 1)>>, <<Paren(<<Id("a"), Comma, Num(2)>>)>>,
     <<>>}

\* Programs that break an invariant of the library.  A non-tuple and a
\* non-numeral handed to the guards (tuple.h, nat.h), with G called to the
\* right; an arity mismatch: more applications than the arity, an application
\* of a name without an arity specifier, a call with too few and with too
\* many arguments; a choice whose tag has no handler declared.
ViolationPrograms ==
    {Prog("violation", {}, Join(<<ML99_call(f, v(x)), ML99_call("G", v(<<Id("y")>>))>>),
          <<>>, IF f = "FT" THEN "ML99_assertIsTuple" ELSE f, "tuple",
          <<NotTupleMessage(x)>>, <<>>) :
        f \in {"FT", "ML99_assertIsTuple", "ML99_untuple"}, x \in NonTuples}
    \cup
    {Prog("violation", {}, Join(<<ML99_call(f, v(x)), ML99_call("G", v(<<Id("y")>>))>>),
          <<>>, "ML99_assertIsNat", "nat", <<NotNatMessage(x)>>, <<>>) :
        f \in {"FN", "ML99_assertIsNat"}, x \in NonNats}
    \cup
    {Prog("violation", {}, t, <<>>, "", "arity", <<>>, <<>>) :
        t \in {ML99_appl(ML99_appl(v(<<Id("F1")>>), v(<<Id("a")>>)), v(<<Id("b")>>)),
               ML99_appl(ML99_appl2(v(<<Id("F")>>), v(<<Id("a")>>), v(<<Id("b")>>)),
                         v(<<Id("c")>>)),
               ML99_appl(v(<<Id("H")>>), v(<<Id("a")>>)),
               ML99_call("F", v(<<Id("a")>>)),
               ML99_call("F1", v(<<Id("a"), Comma, Id("b")>>)),
               ML99_call("T3", v(<<Id("a"), Comma, Id("b")>>))}}
    \cup
    {Prog("violation", decl,
          ML99_match(ML99_choice(v(<<Id(tag)>>), v(data)), v(Matcher)),
          <<>>, "MATCH_" \o tag, "tag", <<data>>, <<>>) :
        decl \in {{}, {"MATCH_B"}, {"MATCH_B", "MATCH_C"}}, tag \in {"A"},
        data \in {<<Id("a")>>, <<>>, <<Id("a"), Comma, Id("b")>>}}

\* What the guards are handed: tuples and non-tuples, numerals within and
\* beyond ML99_NAT_MAX and non-numerals.
GuardInputs ==
    [ML99_assertIsTuple |->
        {<<Paren(<<Id("a"), Comma, Num(2)>>)>>, <<Paren(<<>>)>>, <<Paren(<<Id("a")>>)>>}
        \cup NonTuples,
     ML99_assertIsNat |->
        {<<Num(0)>>, <<Num(1)>>, <<Num(ML99_NAT_MAX)>>} \cup NonNats]

\* The terms to the left and to the right of a guard.
AroundGuard ==
    {<<>>, <<v(<<Id("a")>>)>>, <<ML99_call("G", v(<<Id("y")>>))>>,
     <<ML99_callUneval("F", <<Num(1), Comma, Num(2)>>)>>,
     <<ML99_call("TM", v(<<Id("x")>>)), v(<<Id("b")>>)>>}

\* A guard among the top-level terms, with a term to its left or to its
\* right, and in the body of a metafunction (FT and FN, the examples of
\* tuple.h and nat.h); ref is the program without the guard.
GuardPrograms ==
    {Prog("guard", {}, Join(ba[1] \o <<ML99_call(f, v(x))>> \o ba[2]),
          Join(ba[1] \o ba[2]), f, "top", <<x>>, <<>>) :
        f \in {"ML99_assertIsTuple", "ML99_assertIsNat"},
        x \in GuardInputs.ML99_assertIsTuple \cup GuardInputs.ML99_assertIsNat,
        ba \in {p \in AroundGuard \X AroundGuard : p[1] \o p[2] # <<>>}}
    \cup
    {Prog("guard", {}, Join(<<ML99_call("FT", v(x))>> \o after),
          Join(<<ML99_untuple(v(x))>> \o after), "ML99_assertIsTuple", "body",
          <<x>>, <<>>) :
        x \in GuardInputs.ML99_assertIsTuple, after \in AroundGuard}
    \cup
    {Prog("guard", {}, Join(<<ML99_call("FN", v(x))>> \o after),
          Join(<<ML99_inc(v(x))>> \o after), "ML99_assertIsNat", "body",
          <<x>>, <<>>) :
        x \in GuardInputs.ML99_assertIsNat, after \in AroundGuard}

\* Terms that look up an arity specifier, a metafunction or a handler: a
\* call, applications of F and of BOXED_NUMBER one argument at a time and
\* two at once, a choice matched against the declared handlers.
StaticTerms ==
    {ML99_call("F", v(<<Num(1), Comma, Num(2)>>)),
     ML99_call("G", v(<<Id("y")>>)),
     ML99_appl(ML99_appl(v(<<Id("F")>>), v(<<Id("a")>>)), v(<<Id("b")>>)),
     ML99_appl2(v(<<Id("BOXED_NUMBER")>>), v(<<Num(0)>>), v(<<Num(1)>>)),
     ML99_appl2(v(<<Id("BOXED_NUMBER_INIT")>>), v(<<Num(0)>>), v(<<Num(2)>>)),
     ML99_match(ML99_choice(v(<<Id("B")>>), v(<<Id("a")>>)), v(Matcher))}

\* The same term twice in one evaluation, with another term in between.
StaticPrograms ==
    {Prog("static", decl, Join(<<t, u, t>>), t, "", "", <<t, u, t>>, <<>>) :
        decl \in {Handlers, {"MATCH_B"}}, t \in StaticTerms, u \in StaticTerms}

\* The list of the elements xs, built with ML99_cons and ML99_nil.
RECURSIVE ListOf(_)
ListOf(xs) ==
    IF xs = <<>> THEN ML99_nil ELSE ML99_cons(v(xs[1]), ListOf(Tail(xs)))

\* What is mapped over a list: a metafunction by its name and partial
\* applications, with one and with two arguments still missing.
Mapped ==
    {v(<<Id("F1")>>),
     ML99_appl(v(<<Id("F")>>), v(<<Num(3)>>)),
     ML99_appl2(v(<<Id("T3")>>), v(<<Id("p")>>), v(<<Id("q")>>)),
     ML99_appl(v(<<Id("T3")>>), v(<<Id("p")>>))}

\* The elements of the lists.
Elements == {<<Num(1)>>, <<Num(2)>>, <<Id("a")>>}

\* ML99_listMap with a partial application over lists of one to three
\* elements, in every order and with repetitions; list.h has
\* ML99_listMap(ML99_appl(v(ML99_add), v(3)), ML99_list(v(1, 2, 3))).
MapPrograms ==
    {Prog("map", {}, ML99_listUnwrap(ML99_listMap(f, ListOf(xs))), f, "", "",
          xs, <<>>) :
        f \in Mapped, xs \in UNION {[1..n -> Elements] : n \in 1..3}}

\* Operations and the arguments they are invoked on: expansions of a single
\* term (a value, another invocation, text that is no term) and of many
\* terms (values, a guard that passes and one that fails).
PathCalls ==
    {<<"F1", <<Id("a")>>>>, <<"F", <<Num(1), Comma, Num(2)>>>>,
     <<"ML99_appl", <<Id("F1"), Comma, Id("a")>>>>,
     <<"ML99_inc", <<Num(7)>>>>, <<"H", <<Id("a")>>>>,
     <<"TM", <<Id("x")>>>>, <<"TM", <<>>>>,
     <<"FT", <<Paren(<<Id("a"), Comma, Num(2)>>)>>>>,
     <<"FN", <<Num(7)>>>>, <<"FN", <<Id("blah")>>>>}

\* The terms to the right of an invocation.
PathTails ==
    {<<>>, <<v(<<Id("q")>>)>>,
     <<ML99_call("G", v(<<Id("y")>>)), v(<<Id("q")>>)>>,
     <<ML99_callUneval("TM", <<Id("z")>>)>>}

\* An invocation with unevaluated and with evaluated arguments, among the
\* top-level terms and among the arguments of a call of T3 and of T4; ref
\* has the expansion of the operation in the place of the invocation.
PathPrograms ==
    {Prog("path", {},
          Join(<<v(<<Id("p")>>),
                 IF uneval THEN ML99_callUneval(c[1], c[2]) ELSE ML99_call(c[1], v(c[2]))>>
               \o ts),
          Join(<<v(<<Id("p")>>), Body({}, c[1], c[2])>> \o ts),
          c[1], "top", <<c[2]>>, <<>>) :
        c \in PathCalls, ts \in PathTails, uneval \in BOOLEAN}
    \cup
    {Prog("path", {},
          ML99_call(f, Join(<<v(<<Id("p")>>),
                              IF uneval THEN ML99_callUneval(c[1], c[2])
                              ELSE ML99_call(c[1], v(c[2]))>> \o ts)),
          ML99_call(f, Join(<<v(<<Id("p")>>), Body({}, c[1], c[2])>> \o ts)),
          c[1], "arg", <<c[2]>>, <<Id(f)>>) :
        c \in PathCalls, ts \in PathTails, uneval \in BOOLEAN, f \in {"T3", "T4"}}

\* Arguments of an abort: a literal, terms with a call, a call whose body is
\* many terms, another abort among them, a fatal error among them.
AbortArgs ==
    {v(<<Num(123)>>),
     Join(<<v(<<Num(1)>>), ML99_call("F1", v(<<Num(2)>>))>>),
     ML99_call("TM", v(<<Id("x")>>)),
     Join(<<v(<<Num(1)>>), ML99_abort(v(<<Num(2)>>)), v(<<Num(3)>>)>>),
     Join(<<v(<<Num(1)>>), ML99_fatal("F1", <<Id("no")>>), v(<<Num(3)>>)>>)}

\* An abort among the top-level terms, among the arguments of a call of T3,
\* and among the arguments of a call inside the arguments of T3, with G
\* called to the right of each; and the example of the abort:
\* ML99_call(F, ML99_abort(v(123))).
AbortPrograms ==
    {Prog("abortAt", {},
          Join(<<BeforeFatal, ML99_abort(x), ML99_call("G", v(<<Id("y")>>)),
                 v(<<Id("b")>>)>>),
          x, "", "top", <<>>, BeforeFatal) : x \in AbortArgs}
    \cup
    {Prog("abortAt", {},
          Join(<<ML99_call("T3", Join(<<BeforeFatal, ML99_abort(x),
                                        ML99_call("G", v(<<Id("y")>>))>>)),
                 ML99_call("G", v(<<Id("z")>>))>>),
          x, "T3", "arg", <<>>, BeforeFatal) : x \in AbortArgs}
    \cup
    {Prog("abortAt", {},
          Join(<<ML99_call("T3", Join(<<BeforeFatal,
                                        ML99_call("F", Join(<<BeforeFatal, ML99_abort(x)>>)),
                                        ML99_call("G", v(<<Id("y")>>))>>)),
                 ML99_call("G", v(<<Id("z")>>))>>),
          x, "T3", "deep", <<>>, Join(<<BeforeFatal, BeforeFatal>>)) :
        x \in AbortArgs}
    \cup
    {Prog("abortAt", {}, ML99_call("F", ML99_abort(v(<<Num(123)>>))),
          v(<<Num(123)>>), "F", "example", <<>>, <<>>)}

\* ML99_LIST_EVAL(list).
ML99_LIST_EVAL(list) == ML99_listUnwrap(list)

\* stub.c: the map of the metafunction op over BOXED_NUMBER_COUNT zeros.
BoxedNumbers(op, n) ==
    ML99_LIST_EVAL(ML99_listMapI(v(<<Id(op)>>),
                                 ML99_listReplicate(v(<<Num(n)>>), v(<<Num(0)>>))))

\* First requests of a translation unit: one that stops with output, one
\* that meets a fatal error, one that aborts, one that is no term, one that
\* stops inside a call, and one that uses up the chain of stages.
FirstRequests ==
    {Join(<<v(<<Id("abc"), Id("~"), Num(123)>>),
            ML99_call("F", v(<<Num(1), Comma, Num(2)>>))>>),
     Join(<<v(<<Id("a")>>), ML99_fatal("F", <<Id("the"), Id("description")>>)>>),
     ML99_call("F1", ML99_abort(v(<<Num(123)>>))),
     Join(<<v(<<Id("a")>>), <<Num(123)>>>>),
     ML99_call("T3", Join(<<v(<<Id("a")>>), ML99_call("H", v(<<Id("x")>>))>>)),
     ML99_call("LOOP", v(<<Id("a")>>))}

SecondRequests ==
    {Join(<<v(<<Id("a")>>), ML99_call("F", v(<<Num(1), Comma, Num(2)>>))>>),
     ML99_call("T3", ML99_call("TM", v(<<Id("x")>>))),
     Join(<<v(<<Id("a")>>), ML99_fatal("G", <<Id("no")>>)>>)}

\* Translation units of two requests; the two of stub.c, for the count of
\* stub.c and for a small one.
UnitPrograms ==
    {Prog("unit", {}, t1, <<>>, "", "", <<t2>>, <<>>) :
        t1 \in FirstRequests, t2 \in SecondRequests}
    \cup
    {Prog("unit", {}, BoxedNumbers("BOXED_NUMBER", n), <<>>, "BOXED_NUMBER_INIT",
          "stub", <<BoxedNumbers("BOXED_NUMBER_INIT", n)>>, <<Num(n)>>) :
        n \in {3, BOXED_NUMBER_COUNT}}

\* Top-level terms: the two of the example of ML99_EVAL, a call whose body
\* is many terms, a call with a call as its argument, a call of unevaluated
\* arguments, an empty value.
OrderTerms ==
    {v(<<Id("abc"), Id("~"), Num(123)>>),
     ML99_call("F", v(<<Num(1), Comma, Num(2)>>)),
     ML99_call("TM", v(<<Id("x")>>)),
     ML99_call("F1", ML99_call("G", v(<<Id("a")>>))),
     ML99_callUneval("G", <<Id("z")>>),
     v(<<>>)}

\* Sequences of two and of three top-level terms.
OrderPrograms ==
    {Prog("order", {}, Join(ts), <<>>, "", "", ts, <<>>) :
        ts \in UNION {[1..n -> OrderTerms] : n \in 2..3}}

\* Argument terms of a call: values of one, two and no arguments, a call, a
\* call whose argument is a call, an application.
ArgTerms ==
    {v(<<Id("a")>>), v(<<Num(1), Comma, Num(2)>>), v(<<>>),
     ML99_call("G", v(<<Id("b")>>)),
     ML99_call("F1", ML99_call("G", v(<<Id("c")>>))),
     ML99_appl(v(<<Id("F1")>>), v(<<Id("d")>>))}

\* ML99_call(F, ...) and ML99_call(T3, ...) with one to three argument
\* terms.
ArgsPrograms ==
    {Prog("args", {}, ML99_call(op, Join(ts)), <<>>, op, "", ts, <<>>) :
        op \in {"F", "T3"}, ts \in UNION {[1..n -> ArgTerms] : n \in 1..3}}

(***************************************************************************)
(* The evaluation as a state machine: one action per reduction rule and    *)
(* continuation.                                                           *)
(***************************************************************************)
M ==
    [k |-> k, k_cx |-> k_cx, folder |-> folder, acc |-> acc, tail |-> tail,
     lvl |-> lvl, pass |-> pass, status |-> status, fired |-> fired,
     reduced |-> reduced]

Becomes(m) ==
    /\ k' = m.k
    /\ k_cx' = m.k_cx
    /\ folder' = m.folder
    /\ acc' = m.acc
    /\ tail' = m.tail
    /\ lvl' = m.lvl
    /\ pass' = m.pass
    /\ status' = m.status
    /\ fired' = m.fired
    /\ reduced' = m.reduced
    /\ stages' = IF <<m.lvl, m.pass>> = <<lvl, pass>> THEN stages ELSE stages + 1
    /\ UNCHANGED <<prog, request>>

InitWith(ps) ==
    /\ prog \in ps
    /\ k = ML99_EVAL(prog.term).k
    /\ k_cx = ML99_EVAL(prog.term).k_cx
    /\ folder = ML99_EVAL(prog.term).folder
    /\ acc = ML99_EVAL(prog.term).acc
    /\ tail = ML99_EVAL(prog.term).tail
    /\ lvl = ML99_EVAL(prog.term).lvl
    /\ pass = ML99_EVAL(prog.term).pass
    /\ status = ML99_EVAL(prog.term).status
    /\ fired = ML99_EVAL(prog.term).fired
    /\ reduced = ML99_EVAL(prog.term).reduced
    /\ stages = 0
    /\ request = 1

Init == InitWith(Programs)

ML99_PRIV_EVAL_0v == G_0v(M) /\ Becomes(R_0v(M))

ML99_PRIV_EVAL_0args == G_0args(M) /\ Becomes(R_0args(M))

ML99_PRIV_EVAL_0callUneval ==
    G_0callUneval(M) /\ Becomes(R_0callUneval(prog.decl, M))

ML99_PRIV_EVAL_0fatal == G_0fatal(M) /\ Becomes(R_0fatal(M))

ML99_PRIV_EVAL_0abort == G_0abort(M) /\ Becomes(R_0abort(M))

ML99_PRIV_EVAL_0end == G_0end(M) /\ Becomes(R_0end(M))

ML99_PRIV_REC_STOP == G_REC_STOP(M) /\ Becomes(R_REC_STOP(M))

ML99_PRIV_EVAL_0callUneval_K ==
    G_0callUneval_K(M) /\ Becomes(R_0callUneval_K(prog.decl, M))

ML99_PRIV_EVAL_0v_K == G_0v_K(M) /\ Becomes(R_0v_K(M))

ImproperConstruct == G_Improper(M) /\ Becomes(R_Improper(M))

Next ==
    \/ ML99_PRIV_EVAL_0v
    \/ ML99_PRIV_EVAL_0args
    \/ ML99_PRIV_EVAL_0callUneval
    \/ ML99_PRIV_EVAL_0fatal
    \/ ML99_PRIV_EVAL_0abort
    \/ ML99_PRIV_EVAL_0end
    \/ ML99_PRIV_REC_STOP
    \/ ML99_PRIV_EVAL_0callUneval_K
    \/ ML99_PRIV_EVAL_0v_K
    \/ ImproperConstruct

\* The evaluation that follows another in the translation unit: a new
\* invocation of ML99_EVAL, which takes nothing from the machine `m' the
\* one before has left.
NextEval_carryChain(m, term) ==
    [ML99_EVAL(term) EXCEPT !.lvl = m.lvl, !.pass = m.pass]

NextEval(m, term) == ML99_EVAL(term)

\* The preprocessor goes on to the next request of the translation unit.
NextRequest ==
    /\ prog.kind = "unit" /\ request = 1 /\ status # "0continue"
    /\ k' = NextEval(M, prog.gs[1]).k
    /\ k_cx' = NextEval(M, prog.gs[1]).k_cx
    /\ folder' = NextEval(M, prog.gs[1]).folder
    /\ acc' = NextEval(M, prog.gs[1]).acc
    /\ tail' = NextEval(M, prog.gs[1]).tail
    /\ lvl' = NextEval(M, prog.gs[1]).lvl
    /\ pass' = NextEval(M, prog.gs[1]).pass
    /\ status' = NextEval(M, prog.gs[1]).status
    /\ fired' = NextEval(M, prog.gs[1]).fired
    /\ reduced' = NextEval(M, prog.gs[1]).reduced
    /\ stages' = 0
    /\ request' = 2
    /\ UNCHANGED prog

Spec == Init /\ [][Next]_vars

\* The evaluations of sumTree over the trees.
InitTree == InitWith(TreePrograms \cup CoverPrograms)

SpecTree == InitTree /\ [][Next]_vars

\* The evaluations of the budget claims: the programs above and the ones
\* that never converge.
InitBudget == InitWith(Programs \cup LoopPrograms)

SpecBudget == InitBudget /\ [][Next]_vars

\* The evaluations of stub.c: the maps over replicated lists.
InitList == InitWith(ListPrograms \cup CoverPrograms)

SpecList == InitList /\ [][Next]_vars

\* The evaluations that meet an error.
InitErrors ==
    InitWith(FatalPrograms \cup ViolationPrograms \cup AbortPrograms
                 \cup CoverPrograms)

SpecErrors == InitErrors /\ [][Next]_vars

\* The evaluations whose results are looked at as values: the programs of
\* Spec and the partial applications.
InitValues == InitWith(BasePrograms \cup PartialPrograms)

SpecValues == InitValues /\ [][Next]_vars

\* The evaluations that use up the chain of stages, or all but use it up.
InitExhaust ==
    InitWith(LoopPrograms \cup ShiftedLoopPrograms \cup WaitPrograms
                 \cup CoverPrograms)

SpecExhaust == InitExhaust /\ [][Next]_vars

\* The invocations with unevaluated arguments.
InitUneval == InitWith(UnevalPrograms \cup CoverPrograms)

SpecUneval == InitUneval /\ [][Next]_vars

\* The applications in the fixed-arity forms.
InitAppl == InitWith(ApplNPrograms \cup CoverPrograms)

SpecAppl == InitAppl /\ [][Next]_vars

\* The translation units of two requests.
InitUnit == InitWith(UnitPrograms \cup CoverPrograms)

NextUnit ==
    \/ ML99_PRIV_EVAL_0v
    \/ ML99_PRIV_EVAL_0args
    \/ ML99_PRIV_EVAL_0callUneval
    \/ ML99_PRIV_EVAL_0fatal
    \/ ML99_PRIV_EVAL_0abort
    \/ ML99_PRIV_EVAL_0end
    \/ ML99_PRIV_REC_STOP
    \/ ML99_PRIV_EVAL_0callUneval_K
    \/ ML99_PRIV_EVAL_0v_K
    \/ ImproperConstruct
    \/ NextRequest

SpecUnit == InitUnit /\ [][NextUnit]_vars

\* The applications to names and to closures.
InitClosure == InitWith(ChainPrograms \cup ClosurePrograms \cup CoverPrograms)

SpecClosure == InitClosure /\ [][Next]_vars

\* The evaluations of sequences of top-level terms.
InitOrder == InitWith(OrderPrograms \cup CoverPrograms)

SpecOrder == InitOrder /\ [][Next]_vars

\* The evaluations of programs with a guard.
InitGuard == InitWith(GuardPrograms \cup CoverPrograms)

SpecGuard == InitGuard /\ [][Next]_vars

\* The evaluations that look the same definitions up more than once.
InitStatic == InitWith(StaticPrograms \cup CoverPrograms)

SpecStatic == InitStatic /\ [][Next]_vars

\* The evaluations of maps over lists.
InitMap == InitWith(MapPrograms \cup CoverPrograms)

SpecMap == InitMap /\ [][Next]_vars

\* The evaluations of calls with argument terms, and of sumTree.
InitArgs == InitWith(ArgsPrograms \cup TreePrograms \cup CoverPrograms)

SpecArgs == InitArgs /\ [][Next]_vars

\* The evaluations of choices matched against declared and undeclared
\* handlers, with and without additional arguments, and of sumTree.
InitDispatch ==
    InitWith(MatchPrograms \cup MatchWithArgsPrograms \cup TreePrograms
             \cup CoverPrograms)

SpecDispatch == InitDispatch /\ [][Next]_vars

\* The evaluations of invocations whose expansion is one term and many.
InitPaths == InitWith(PathPrograms \cup CoverPrograms)

SpecPaths == InitPaths /\ [][Next]_vars

(***************************************************************************)
(* Properties.                                                             *)
(***************************************************************************)
Halted == status # "0continue"

\* C1 (arity law): when the evaluation of f applied to its N argument
\* groups one at a time has halted, it has halted the way the single
\* invocation of f on all the groups halts, and with the same result.
C1_ArityLaw ==
    (prog.kind = "appl" /\ Halted) =>
        LET r == Run(prog.decl, prog.ref)
        IN  status = r.status /\ (r.status = "0stop" => acc = r.acc)

\* A three-step application that went through two closures and fired T3.
C1_Witness ==
    /\ prog.kind = "appl" /\ prog.op = "T3" /\ status = "0stop"
    /\ Len(fired) = 4 /\ fired[4].op = "T3"
    /\ prog.gs[1] # prog.gs[2] /\ prog.gs[2] # prog.gs[3]

\* The handlers of the family MATCH_ that have fired, in order.
HandlerFirings == SelectSeq(fired, LAMBDA e : e.op \in Handlers)

\* C2 (dispatch determinism): matching choice(T, payload) against a family
\* in which the handler of T is declared halts successfully having fired
\* that handler once, on exactly the payload, and nothing else of the
\* family; the output is that handler's, whatever other handlers exist.
C2_DispatchDeterminism ==
    (prog.kind = "match" /\ prog.op \in prog.decl /\ Halted) =>
        /\ status = "0stop"
        /\ HandlerFirings = <<[op |-> prog.op, args |-> prog.gs[1]]>>
        /\ acc = <<Id(prog.op), Paren(prog.gs[1])>>
        /\ acc = Run({prog.op}, prog.term).acc

\* A match of a two-argument payload of tag B with all handlers declared.
C2_Witness ==
    /\ prog.kind = "match" /\ prog.tag = "B" /\ prog.decl = Handlers
    /\ prog.gs[1] = <<Id("a"), Comma, Id("b")>>
    /\ status = "0stop" /\ HandlerFirings # <<>>

\* The arguments a sequence of extra arguments stands for: none when the
\* sequence is empty.
ArgList(x) == IF x = <<>> THEN <<>> ELSE Split(x)

\* C3 as stated (dispatch with extra arguments): matchWithArgs fires the
\* handler of the tag once, and the arguments it receives are those of the
\* payload followed by the extra arguments, none for the empty sequence, and
\* no others.
C3_Original ==
    (prog.kind = "matchWithArgs" /\ prog.op \in prog.decl /\ Halted) =>
        /\ status = "0stop"
        /\ Len(HandlerFirings) = 1
        /\ HandlerFirings[1].op = prog.op
        /\ Split(HandlerFirings[1].args) = Split(prog.gs[1]) \o ArgList(prog.extra)

\* C3 as amended: matchWithArgs fires the handler of the tag once, on the
\* payload, a comma and the extra tokens as written: the arguments of the
\* payload followed by those of the extra sequence, an empty extra sequence
\* being received as one more, empty, argument.
C3_MatchWithArgsThreading ==
    (prog.kind = "matchWithArgs" /\ prog.op \in prog.decl /\ Halted) =>
        /\ status = "0stop"
        /\ HandlerFirings =
              <<[op |-> prog.op, args |-> Join(<<prog.gs[1], prog.extra>>)]>>
        /\ Split(HandlerFirings[1].args) = Split(prog.gs[1]) \o Split(prog.extra)
        /\ acc = <<Id(prog.op), Paren(Join(<<prog.gs[1], prog.extra>>))>>

\* A match with a payload of one argument and the empty extra sequence: the
\* handler has received two arguments.
C3_Witness ==
    /\ prog.kind = "matchWithArgs" /\ prog.extra = <<>>
    /\ prog.gs[1] = <<Num(1)>> /\ prog.op \in prog.decl
    /\ status = "0stop" /\ Len(HandlerFirings) = 1
    /\ Len(Split(HandlerFirings[1].args)) = 2

\* C4 (dispatch miss): a match fires at most one handler; when the handler
\* of the tag is declared it fires exactly one, and when it is not the
\* evaluation halts in failure, with the undeclared invocation left in the
\* text, no handler fired and no output.
C4_DispatchMissFails ==
    (prog.kind \in {"match", "matchWithArgs"}) =>
        /\ Len(HandlerFirings) <= 1
        /\ Halted =>
              IF prog.op \in prog.decl
              THEN Len(HandlerFirings) = 1
              ELSE /\ status = "improper"
                   /\ HandlerFirings = <<>>
                   /\ acc = <<>>
                   /\ HeadTerm(M)[1] = Id(prog.op \o "_IMPL")

\* match(choice(A, 1), MATCH_) with only MATCH_B declared has halted.
C4_Witness ==
    /\ prog.kind = "match" /\ prog.tag = "A" /\ prog.decl = {"MATCH_B"}
    /\ prog.gs[1] = <<Num(1)>> /\ status = "improper"

\* C6 (composition): compose(F, G) applied to x halts the way
\* invoke(F, invoke(G, x)) halts, and with the same result.
C6_Compose ==
    (prog.kind = "compose" /\ Halted) =>
        LET r == Run(prog.decl, prog.ref)
        IN  status = r.status /\ (r.status = "0stop" => acc = r.acc)

\* compose(F1, G) applied to 1 has given ((1 * 8) + 1).
C6_Witness ==
    /\ prog.kind = "compose" /\ prog.op = "F1" /\ prog.tag = "G"
    /\ prog.gs[1] = <<Num(1)>> /\ status = "0stop"
    /\ acc = <<Paren(<<Paren(<<Num(1), Id("*"), Num(8)>>), Id("+"), Num(1)>>)>>

\* C7 (literal round trip): evaluating v(x) expands no metafunction and
\* halts successfully with exactly the tokens x.
C7_LiteralRoundTrip ==
    (prog.kind = "literal") =>
        /\ fired = <<>>
        /\ Halted => (status = "0stop" /\ acc = prog.gs[1])

\* A literal holding the tokens of an invocation has been evaluated.
C7_Witness ==
    /\ prog.kind = "literal" /\ status = "0stop"
    /\ prog.gs[1] = ML99_call("F1", v(<<Id("a")>>))

\* C8 as stated (idempotence): the result of a successful evaluation, when
\* evaluated again, is returned unchanged.
C8_Original ==
    (prog.kind = "again" /\ Halted) => (status = "0stop" /\ acc = prog.term)

\* C8 as amended: the result of a successful evaluation, wrapped as a
\* literal and evaluated again, is returned unchanged.
C8_WrappedResultUnchanged ==
    (prog.kind = "wrapped" /\ Halted) =>
        /\ status = "0stop"
        /\ acc = Run(prog.decl, prog.ref).acc
        /\ v(acc) = prog.term

\* The wrapped result of evaluating a quoted term has been evaluated again.
C8_Witness ==
    /\ prog.kind = "wrapped" /\ status = "0stop"
    /\ IsTerm(acc, "0args")

\* C5 (recursive dispatch over a tree): sumTree of a tree of leaf and node
\* choice values halts successfully with the sum of the values in the tree.
C5_SumTree ==
    (prog.kind = "tree" /\ Halted) => (status = "0stop" /\ acc = prog.ref)

\* sumTree of the tree of main.c has given 28.
C5_Witness ==
    /\ prog.kind = "tree" /\ prog.term = sumTree(TREE)
    /\ status = "0stop" /\ acc = <<Num(28)>>

\* The number of stages one evaluation may fire.
Budget == RecLevels * UnrollPasses

\* C9 (bounded termination): an evaluation never fires more stages than
\* the budget and has halted when the budget is used up; every step is taken
\* by an evaluation that has not halted, and fires one more stage or halts
\* it, so no evaluation runs forever.
C9_BoundedTermination ==
    /\ [](stages <= Budget /\ (stages = Budget => Halted))
    /\ [][/\ ~Halted
          /\ \/ stages' = stages + 1
             \/ status' = "improper"]_vars

\* A program that never converges has used up the budget.
C9_Witness ==
    /\ prog.kind = "loop" /\ status = "exhausted" /\ stages = Budget
    /\ tail # <<>>

\* The rules whose guard holds of the machine.
EnabledRules ==
    {r \in 1..10 :
        \/ r = 1 /\ G_0v(M)
        \/ r = 2 /\ G_0args(M)
        \/ r = 3 /\ G_0callUneval(M)
        \/ r = 4 /\ G_0fatal(M)
        \/ r = 5 /\ G_0abort(M)
        \/ r = 6 /\ G_0end(M)
        \/ r = 7 /\ G_REC_STOP(M)
        \/ r = 8 /\ G_0callUneval_K(M)
        \/ r = 9 /\ G_0v_K(M)
        \/ r = 10 /\ G_Improper(M)}

\* C10 (determinism): in every state at most one rule is enabled, exactly
\* one until the evaluation halts, and every step leads to the one state
\* that is a function of the current term, stage and declarations, so equal
\* inputs pass through equal stages and terms to equal outputs.
C10_Determinism ==
    /\ [](Cardinality(EnabledRules) = IF Halted THEN 0 ELSE 1)
    /\ [][M' = StepM(prog.decl, M) /\ prog' = prog]_vars

\* The machine is at the end of a body of many terms evaluated as an
\* argument: only the continuation of that body is enabled.
C10_Witness ==
    /\ tail = <<>> /\ k = K_v /\ Len(k_cx) = 2 /\ status = "0continue"
    /\ EnabledRules = {9}

\* C11 (long repeated invocation): the evaluation of a metafunction of
\* (item, index) mapped over a replicated list of N elements, N up to 128 and
\* 130, fires a stage with every step and always has a stage to fire until
\* it halts; it stays below the budget and never fails, so it halts
\* successfully, and then the output is the N outputs of the metafunction for
\* the indices 0 .. N - 1, in this order, reached in 22 stages for each
\* element and 21 more.
C11_LongMapWithinBudget ==
    /\ [](prog.kind = "mapI" =>
            /\ stages < Budget
            /\ status \in {"0continue", "0stop"}
            /\ status = "0continue" => EnabledRules # {}
            /\ status = "0stop" =>
                  /\ acc = Outputs(prog.op, prog.gs[1][1].n)
                  /\ stages = 22 * (prog.gs[1][1].n + 1) - 1)
    /\ [][prog.kind = "mapI" => stages' = stages + 1]_vars

\* The map of BOXED_NUMBER_INIT over three elements has halted with
\* *_0 = 0; *_1 = 1; *_2 = 2; after firing the metafunction three times.
C11_Witness ==
    /\ prog.kind = "mapI" /\ prog.op = "BOXED_NUMBER_INIT"
    /\ prog.gs[1] = <<Num(3)>> /\ status = "0stop"
    /\ acc = <<Id("*"), Id("_0"), Id("="), Num(0), Id(";"),
               Id("*"), Id("_1"), Id("="), Num(1), Id(";"),
               Id("*"), Id("_2"), Id("="), Num(2), Id(";")>>

\* The terminal error marker for the metafunction f and the message.
FatalMarker(f, message) ==
    <<Id("ML99_PRIV_FATAL_ERROR"), Paren(<<Id(f), Comma>> \o message)>>

\* C12 (fatal error is terminal): an evaluation that holds a fatal error
\* halts in the error state; in that state nothing is left to reduce, no rule
\* is enabled and the result is the error marker alone, carrying the name and
\* the message; the call enclosing the error and the terms to its right are
\* never reduced, and no step is taken from the error state.
C12_FatalIsTerminal ==
    /\ [](prog.kind = "fatalAt" =>
            /\ \A i \in 1..Len(fired) : fired[i].op \notin {"G", "T3", "ML99_inc"}
            /\ Halted => status = "fatal"
            /\ status = "fatal" =>
                  /\ acc = FatalMarker(prog.op, prog.gs[1])
                  /\ tail = <<>> /\ k_cx = <<>>
                  /\ EnabledRules = {})
    /\ [][status # "fatal"]_vars

\* A fatal error among the arguments of a call has halted the evaluation
\* after output had been accumulated.
C12_Witness ==
    /\ prog.kind = "fatalAt" /\ prog.tag = "arg" /\ status = "fatal"
    /\ prog.gs[1] = <<Id("the"), Id("description")>>
    /\ acc = FatalMarker("F", <<Id("the"), Id("description")>>)
    /\ Len(fired) = 1

\* C13 (fatal message is never evaluated): up to the error state only the
\* terms to the left of the error have been reduced, the error term itself
\* counting as one more and a call enclosing it as another; no metafunction
\* the message names has fired, and the reported text is the message, token
\* for token as written.
C13_FatalMessageVerbatim ==
    (prog.kind = "fatalAt" /\ prog.tag \in {"top", "arg"}) =>
        LET before == Run(prog.decl, prog.ref)
        IN  /\ Len(fired) <= Len(before.fired)
            /\ \A i \in 1..Len(fired) : fired[i] = before.fired[i]
            /\ status = "fatal" =>
                  /\ fired = before.fired
                  /\ reduced = before.reduced + (IF prog.tag = "arg" THEN 2 ELSE 1)
                  /\ acc[2].xs = <<Id(prog.op), Comma>> \o prog.gs[1]

\* The error whose message is the term of a call of G has halted the
\* evaluation, and G has not fired.
C13_Witness ==
    /\ prog.kind = "fatalAt" /\ prog.tag = "top" /\ status = "fatal"
    /\ prog.gs[1] = ML99_call("G", v(<<Id("a")>>))
    /\ \A i \in 1..Len(fired) : fired[i].op # "G"

\* A token that is the marker of a term, or of a closure (arity, f, env...).
IsMarker(tok) ==
    /\ tok.t = "paren"
    /\ \/ \E tag \in TermTags : IsTerm(<<tok>>, tag)
       \/ LET c == Split(tok.xs)
          IN  Len(c) >= 3 /\ IsNum(c[1]) /\ IsIdent(c[2]) /\ Arity(c[2][1].s) > 0

\* The tokens hold a marker at some depth.
RECURSIVE HasMarker(_)
HasMarker(toks) ==
    \E i \in 1..Len(toks) : IsMarker(toks[i]) \/ HasMarker(toks[i].xs)

\* C14 as stated (fully reduced output is literal only): the result of a
\* successful evaluation of an application, partial or not, holds no marker of
\* an invocation or of a closure.
C14_Original ==
    (prog.kind = "appl" /\ status = "0stop") => ~HasMarker(acc)

\* C14 as amended: the result of a successful evaluation holds no marker of
\* a term or of a closure, with two exceptions: a partial application that has
\* not received all its argument groups results in the closure of the
\* remaining arity, f and the arguments received, in order; and a literal
\* results in its tokens as written, markers included.
C14_LiteralOutputOrClosure ==
    (status = "0stop") =>
        CASE prog.kind = "appl" /\ Len(prog.gs) < Arity(prog.op) ->
                acc = <<Paren(Join(<<<<Num(Arity(prog.op) - Len(prog.gs))>>,
                                     <<Id(prog.op)>>>> \o prog.gs))>>
          [] prog.kind = "literal" -> acc = prog.gs[1]
          [] OTHER -> ~HasMarker(acc)

\* T3 applied to two of its three argument groups has halted successfully
\* with the closure (1, T3, a, 1).
C14_Witness ==
    /\ prog.kind = "appl" /\ prog.op = "T3" /\ status = "0stop"
    /\ prog.gs = <<<<Id("a")>>, <<Num(1)>>>>
    /\ acc = <<Paren(<<Num(1), Comma, Id("T3"), Comma, Id("a"), Comma, Num(1)>>)>>
    /\ HasMarker(acc)

\* The invocations a machine still holds unevaluated: the terms of
\* invocations in its tail and the calls waiting for their arguments.
UnevaluatedInvocations(m) ==
    LET ts == IF m.tail = <<>> THEN <<>> ELSE Split(m.tail)
    IN  Cardinality({i \in 1..Len(ts) :
                        IsTerm(ts[i], "0args") \/ IsTerm(ts[i], "0callUneval")})
            + Cardinality({i \in 1..Len(m.k_cx) : m.k_cx[i].op # ""})

StagesOf(m) == m.pass * RecLevels + m.lvl

\* C16 (unevaluated invocation is a shortcut): when the evaluation of
\* ML99_callUneval(F, a) has halted, it has halted the way the evaluation of
\* ML99_call(F, v(a)) halts, with the same result, and one term fewer was
\* reduced by the reduction rules: the term v(a), since the term of either
\* invocation is one reduction.  In stages of the chain it is three fewer:
\* the reduction of v(a), the end of the arguments and their continuation.
C16_CallUnevalShortcut ==
    (prog.kind = "uneval" /\ Halted) =>
        LET r == Run(prog.decl, prog.ref)
        IN  /\ r.status # "0continue"
            /\ status = r.status
            /\ acc = r.acc
            /\ reduced + 1 = r.reduced
            /\ stages + 3 = StagesOf(r)

\* F invoked on the unevaluated `a, b' among the arguments of G: F and G have
\* fired and the evaluation has stopped.
C16_Witness ==
    /\ prog.kind = "uneval" /\ prog.op = "F" /\ prog.tag = "arg"
    /\ prog.gs = <<<<Id("a"), Comma, Id("b")>>>>
    /\ status = "0stop" /\ Len(fired) = 2
    /\ fired[1].op = "F" /\ fired[2].op = "G"
    /\ reduced = 6

\* C17 as stated (single failure path): every evaluation of a program that
\* breaks an invariant halts in the error state of the fatal primitive.
C17_Original == (prog.kind = "violation" /\ Halted) => status = "fatal"

\* C17 as amended: no program that breaks an invariant halts with success.
\* A non-tuple or a non-numeral handed to a guard halts the evaluation in the
\* error state, with the marker naming the guard and its message and with
\* nothing to the right reduced.  An arity mismatch and a tag without a
\* handler do not reach the fatal primitive: the evaluation halts at text
\* that is no term, with no error marker.
C17_GuardsFailThroughFatal ==
    (prog.kind = "violation") =>
        /\ \A i \in 1..Len(fired) : fired[i].op \notin {"G", "ML99_inc"} \cup Handlers
        /\ Halted =>
              IF prog.tag \in {"tuple", "nat"}
              THEN /\ status = "fatal"
                   /\ acc = FatalMarker(prog.op, prog.gs[1])
              ELSE /\ status = "improper"
                   /\ ~IsTerm(HeadTerm(M), "0fatal")
                   /\ \A i \in 1..Len(acc) : acc[i] # Id("ML99_PRIV_FATAL_ERROR")

\* The example of nat.h: ML99_call(F, v(blah)) has halted with the number
\* mismatch error.
C17_Witness ==
    /\ prog.kind = "violation" /\ prog.tag = "nat"
    /\ prog.term = Join(<<ML99_call("FN", v(<<Id("blah")>>)),
                          ML99_call("G", v(<<Id("y")>>))>>)
    /\ status = "fatal"
    /\ acc = FatalMarker("ML99_assertIsNat", NotNatMessage(<<Id("blah")>>))
    /\ Len(fired) = 2

\* The calls that enclose the abort of a program.
Enclosing ==
    CASE prog.tag = "top" -> 0
      [] prog.tag = "deep" -> 2
      [] OTHER -> 1

\* C20 (abort): the metafunctions enclosing an abort and the ones called to
\* its right never fire; when the evaluation has halted, it has halted the
\* way the evaluation of the arguments of the abort alone halts, the result
\* is their result and nothing of what was accumulated before, and the terms
\* reduced are the ones to the left of the abort, the calls enclosing it,
\* the abort and its arguments.
C20_Abort ==
    (prog.kind = "abortAt") =>
        LET r == Run(prog.decl, prog.ref)
            before == IF prog.extra = <<>> THEN 0
                      ELSE Run(prog.decl, prog.extra).reduced
        IN  /\ \A i \in 1..Len(fired) : fired[i].op \notin {"G", "T3", "F"}
            /\ Halted =>
                  /\ r.status \in {"0stop", "fatal"}
                  /\ status = r.status
                  /\ acc = r.acc
                  /\ reduced = before + Enclosing + 1 + r.reduced

\* ML99_call(F, ML99_abort(v(123))) has stopped with 123, and nothing has
\* fired.
C20_Witness ==
    /\ prog.kind = "abortAt" /\ prog.tag = "example"
    /\ status = "0stop" /\ acc = <<Num(123)>> /\ fired = <<>>

\* C19 (fixed-arity application forms): when the evaluation of ML99_appl2,
\* ML99_appl3 or ML99_appl4 on f and two, three or four arguments has halted,
\* it has halted the way the nested single applications of f to the same
\* arguments in the same order halt, and with the same result.
C19_FixedArityForms ==
    (prog.kind = "applN" /\ Halted) =>
        LET r == Run(prog.decl, prog.ref)
        IN  /\ r.status # "0continue"
            /\ status = r.status
            /\ acc = r.acc
            /\ status = "0stop" => fired[Len(fired)] = r.fired[Len(r.fired)]

\* ML99_appl4 of T4 to four different arguments has fired T4 on them in
\* their order.
C19_Witness ==
    /\ prog.kind = "applN" /\ status = "0stop" /\ Len(fired) = 5
    /\ prog.gs = <<<<Id("a")>>, <<Num(1)>>, <<>>, <<Paren(<<Id("a"), Comma, Num(2)>>)>>>>
    /\ fired[1].op = "ML99_appl4"
    /\ fired[5] =
           [op |-> "T4", args |-> <<Id("a"), Comma, Num(1), Comma, Comma,
                                    Paren(<<Id("a"), Comma, Num(2)>>)>>]

IsClosure(tok) ==
    /\ tok.t = "paren"
    /\ LET c == Split(tok.xs)
       IN  Len(c) >= 3 /\ IsNum(c[1]) /\ IsIdent(c[2]) /\ Arity(c[2][1].s) > 0

\* The closures among the tokens, at any depth.
RECURSIVE ClosuresIn(_)
ClosuresIn(toks) ==
    UNION {(IF IsClosure(toks[i]) THEN {toks[i]} ELSE {}) \cup ClosuresIn(toks[i].xs) :
           i \in 1..Len(toks)}

\* Every token the machine holds: the accumulator and the remaining terms,
\* of the evaluation at hand and of the contexts waiting for it.
RECURSIVE ContextTokens(_)
ContextTokens(cx) ==
    IF cx = <<>> THEN <<>>
    ELSE cx[1].acc \o cx[1].tail \o ContextTokens(Tail(cx))

MachineTokens(m) == m.acc \o m.tail \o ContextTokens(m.k_cx)

\* The expansions of the body of op in the history.
Firings(op) == {i \in 1..Len(fired) : fired[i].op = op}

\* C21 (first application to a bare name): one group g applied to the name
\* F.  When the arity of F is 1, no closure of F is ever in the machine and
\* the application is followed at once by the invocation of F on g: F is the
\* next to fire, or F_IMPL(g) stands unexpanded when g has not the number of
\* arguments F takes.  When the arity is greater, F never fires and the
\* evaluation stops with the closure (arity - 1, F, g).
C21_FirstApplication ==
    (prog.kind = "chain" /\ Len(prog.gs) = 1) =>
        IF Arity(prog.op) = 1
        THEN /\ \A c \in ClosuresIn(MachineTokens(M)) : Split(c.xs)[2] # <<Id(prog.op)>>
             /\ Halted =>
                   \/ /\ status = "0stop" /\ Len(fired) = 2
                      /\ fired[1].op = "ML99_appl"
                      /\ fired[2] = [op |-> prog.op, args |-> prog.gs[1]]
                   \/ /\ status = "improper" /\ Len(fired) = 1
                      /\ fired[1].op = "ML99_appl"
                      /\ tail = Join(<<Unexpanded(prog.op, prog.gs[1]), EndMark>>)
        ELSE /\ Firings(prog.op) = {}
             /\ Halted =>
                   /\ status = "0stop"
                   /\ acc = Closure(Arity(prog.op) - 1, prog.op, prog.gs[1])

\* T3 applied to `a, b' has stopped with the closure (2, T3, a, b).
C21_Witness ==
    /\ prog.kind = "chain" /\ prog.op = "T3"
    /\ prog.gs = <<<<Id("a"), Comma, Id("b")>>>>
    /\ status = "0stop"
    /\ acc = <<Paren(<<Num(2), Comma, Id("T3"), Comma, Id("a"), Comma, Id("b")>>)>>

\* C22 (application to a closure): one group g applied to the closure
\* (n, F, env).  When n > 1, F never fires and the evaluation stops with
\* (n - 1, F, env, g).  When n = 1, F is invoked once, on env followed by g:
\* it fires once, on exactly these arguments, or F_IMPL(env, g) stands
\* unexpanded when they are not as many as F takes.
C22_ClosureApplication ==
    (prog.kind = "closure") =>
        LET c == prog.extra[1]
            all == Join(<<c.env, prog.gs[1]>>)
        IN  IF c.arity > 1
            THEN /\ Firings(prog.op) = {}
                 /\ Halted =>
                       /\ status = "0stop"
                       /\ acc = Closure(c.arity - 1, prog.op, all)
            ELSE /\ Cardinality(Firings(prog.op)) <= 1
                 /\ Halted =>
                       \/ /\ status = "0stop" /\ Len(fired) = 2
                          /\ fired[2] = [op |-> prog.op, args |-> all]
                          /\ Len(Split(all)) = Arity(prog.op)
                       \/ /\ status = "improper" /\ Len(fired) = 1
                          /\ tail = Join(<<Unexpanded(prog.op, all), EndMark>>)
                          /\ Len(Split(all)) # Arity(prog.op)

\* The closure (1, T3, x, 2) applied to `a' has fired T3 on x, 2, a.
C22_Witness ==
    /\ prog.kind = "closure" /\ prog.op = "T3" /\ status = "0stop"
    /\ prog.extra[1] = [arity |-> 1, env |-> <<Id("x"), Comma, Num(2)>>]
    /\ prog.gs = <<<<Id("a")>>>>
    /\ fired[2] = [op |-> "T3",
                   args |-> <<Id("x"), Comma, Num(2), Comma, Id("a")>>]
    /\ acc = <<Id("x"), Id("~"), Num(2), Id("~"), Id("a")>>

\* C23 (closure arity invariant): while a name F is applied to no more
\* groups than its arity, every closure the machine holds is a closure of F
\* that has captured the first j groups of the program, j >= 1, in their
\* order, and whose remaining arity is the arity of F less j, and at least 1.
C23_ClosureArity ==
    (prog.kind = "chain") =>
        \A c \in ClosuresIn(MachineTokens(M)) :
            \E j \in 1..Len(prog.gs) :
                /\ Arity(prog.op) - j >= 1
                /\ Arity(prog.op) - j <= Arity(prog.op) - 1
                /\ <<c>> = Closure(Arity(prog.op) - j, prog.op,
                                   Join(SubSeq(prog.gs, 1, j)))

\* T4 applied to four groups: the closure that has captured three of them
\* is the argument of the last application.
C23_Witness ==
    /\ prog.kind = "chain" /\ prog.op = "T4"
    /\ prog.gs = <<<<Id("a")>>, <<Num(1)>>, <<>>, <<Id("a"), Comma, Id("b")>>>>
    /\ status = "0continue"
    /\ Closure(1, "T4", <<Id("a"), Comma, Num(1), Comma>>)[1]
           \in ClosuresIn(MachineTokens(M))

\* C24 (early stop): the chain ends by a stage that receives the stop
\* continuation with no term left, and only so; no stage fires after it.
\* The number of stages fired until then is bounded by the number of terms
\* the program had reduced, not by the length of the chain: at least two
\* more than the terms reduced and at most three for each and two more.
C24_EarlyStop ==
    /\ [](/\ G_REC_STOP(M) => stages <= 3 * reduced + 1
          /\ status = "0stop" =>
                /\ tail = <<>> /\ k = REC_STOP /\ k_cx = <<>>
                /\ reduced + 2 <= stages
                /\ stages <= 3 * reduced + 2
                /\ stages < Budget
                /\ EnabledRules = {})
    /\ [][/\ status = "0continue"
          /\ status' = "0stop" <=> G_REC_STOP(M)
          /\ status' = "0stop" => stages' = stages + 1]_vars

\* The map over two elements has stopped after 65 stages of the 16384.
C24_Witness ==
    /\ prog.kind = "mapI" /\ prog.op = "BOXED_NUMBER" /\ prog.gs = <<<<Num(2)>>>>
    /\ status = "0stop" /\ stages = 65 /\ lvl = 65 /\ pass = 0

\* C25 (linear chain, bounded wrap-around): the position in the chain is a
\* stage ML99_PRIV_REC_<lvl>, lvl < 1024, of one of the 16 passes of the
\* unroll wrapper; a stage that fires hands over to stage lvl + 1 of the same
\* pass, the last one to stage 0 of the next pass, and to nothing else; after
\* the last stage of the last pass the evaluation has halted, so the stages
\* fired, pass * 1024 + lvl, never exceed 1024 * 16.
C25_LinearChain ==
    /\ [](/\ lvl \in 0..(RecLevels - 1)
          /\ pass \in 0..UnrollPasses
          /\ stages = pass * RecLevels + lvl
          /\ stages <= RecLevels * UnrollPasses
          /\ pass = UnrollPasses => lvl = 0 /\ Halted)
    /\ [][<<lvl, pass>>' # <<lvl, pass>> =>
              IF lvl = RecLevels - 1
              THEN lvl' = 0 /\ pass' = pass + 1
              ELSE lvl' = lvl + 1 /\ pass' = pass]_vars

\* The last stage of the second pass has handed over to stage 0 of the third.
C25_Witness ==
    /\ prog.kind = "loop" /\ prog.tag = "shifted"
    /\ pass = 2 /\ lvl = 0 /\ stages = 2 * RecLevels /\ status = "0continue"

\* The top-level terms to the right of the one being evaluated, and the
\* output accumulated at the top level: the machine's own when no context
\* waits, else those of the outermost waiting context.
TopRest(m) ==
    IF m.k_cx # <<>> THEN m.k_cx[Len(m.k_cx)].tail
    ELSE IF m.tail = <<>> THEN <<>> ELSE TailTerms(m)

TopAcc(m) == IF m.k_cx # <<>> THEN m.k_cx[Len(m.k_cx)].acc ELSE m.acc

\* The outputs of the first j terms of the program, each evaluated alone.
RECURSIVE OutUpTo(_)
OutUpTo(j) ==
    IF j = 0 THEN <<>> ELSE OutUpTo(j - 1) \o Run(prog.decl, prog.gs[j]).acc

RECURSIVE FiredUpTo(_)
FiredUpTo(j) ==
    IF j = 0 THEN <<>> ELSE FiredUpTo(j - 1) \o Run(prog.decl, prog.gs[j]).fired

IsPrefix(a, b) == Len(a) <= Len(b) /\ a = SubSeq(b, 1, Len(a))

\* C26 (left-to-right order): of the n top-level terms, when the j-th is
\* being evaluated the terms j + 1 .. n stand to its right as written, the
\* output holds the outputs of the terms 1 .. j - 1 in their order and after
\* them no more than the output of the j-th; a step leaves the terms to the
\* right of the head as they are; and when the evaluation has halted the
\* output is the outputs of all the terms in their order and the bodies have
\* fired in the order of the terms.
C26_LeftToRight ==
    /\ [](prog.kind = "order" =>
            LET n == Len(prog.gs)
                rem == IF TopRest(M) = <<>> THEN -1
                       ELSE Len(Split(TopRest(M))) - Len(Split(EndMark))
                j == n - rem
            IN  /\ j \in 1..(n + 1)
                /\ rem >= 0 => TopRest(M) = Join(SubSeq(prog.gs, j + 1, n) \o <<EndMark>>)
                /\ IsPrefix(OutUpTo(j - 1), TopAcc(M))
                /\ j <= n => IsPrefix(TopAcc(M), OutUpTo(j))
                /\ Halted =>
                      /\ status = "0stop"
                      /\ acc = OutUpTo(n)
                      /\ fired = FiredUpTo(n))
    /\ [][(prog.kind = "order" /\ tail # <<>>) =>
              \/ /\ Len(k_cx') = Len(k_cx)
                 /\ \E i \in 0..Len(tail') : SubSeq(tail', i + 1, Len(tail')) = TailTerms(M)
              \/ /\ Len(k_cx') = Len(k_cx) + 1
                 /\ k_cx'[1].tail = TailTerms(M)
              \/ IsTerm(HeadTerm(M), "0end")]_vars

\* The example of ML99_EVAL: v(abc ~ 123), ML99_call(F, v(1, 2)) has stopped
\* with abc ~ 123 before 1 + 2.
C26_Witness ==
    /\ prog.kind = "order"
    /\ prog.gs = <<v(<<Id("abc"), Id("~"), Num(123)>>),
                   ML99_call("F", v(<<Num(1), Comma, Num(2)>>))>>
    /\ status = "0stop"
    /\ acc = <<Id("abc"), Id("~"), Num(123), Num(1), Id("+"), Num(2)>>

\* The shape a guard requires: one parenthesised group for a tuple, one
\* numeral of 0..ML99_NAT_MAX for a natural number.
HasShape(f, x) ==
    IF f = "ML99_assertIsTuple"
    THEN \E inner \in {x[i].xs : i \in 1..Len(x)} : x = <<Paren(inner)>>
    ELSE \E n \in 0..ML99_NAT_MAX : x = <<Num(n)>>

\* The message of a guard for x.
GuardMessage(f, x) ==
    IF f = "ML99_assertIsTuple" THEN NotTupleMessage(x) ELSE NotNatMessage(x)

\* The firings other than those of the guard and of the metafunctions FT
\* and FN that hold it.
RECURSIVE WithoutGuard(_)
WithoutGuard(fs) ==
    IF fs = <<>> THEN <<>>
    ELSE IF fs[1].op \in {"ML99_assertIsTuple", "ML99_assertIsNat", "FT", "FN"}
         THEN WithoutGuard(Tail(fs))
         ELSE <<fs[1]>> \o WithoutGuard(Tail(fs))

FixedArity == {"F", "G", "BOXED_NUMBER", "BOXED_NUMBER_INIT", "ML99_choice", "ML99_match"}

RECURSIVE AppliedAlone(_)
AppliedAlone(j) ==
    IF j = 0 THEN <<>>
    ELSE AppliedAlone(j - 1) \o Run(prog.decl, ML99_appl(prog.ref, v(prog.gs[j]))).acc

\* The arguments of the expansion of ML99_PRIV_listMap_cons that is next.
NextMapStep ==
    IF tail # <<>> /\ IsTerm(HeadTerm(M), "0callUneval")
                   /\ Split(TermArgs(HeadTerm(M)))[1] = <<Id("ML99_PRIV_listMap_cons")>>
    THEN Rest(Split(TermArgs(HeadTerm(M))), 2)
    ELSE <<>>

\* C29 (closures are values): when a partial application is mapped over a
\* list, every element is applied to the closure as it was built, whatever
\* has been applied to it before; the result for an element is that of the
\* one application evaluated on its own, so it depends neither on the other
\* elements nor on their order.
C29_ClosureIsValue ==
    (prog.kind = "map") =>
        /\ NextMapStep # <<>> =>
              /\ Split(NextMapStep)[3] = Run(prog.decl, prog.ref).acc
              /\ \E j \in 1..Len(prog.gs) : Split(NextMapStep)[1] = prog.gs[j]
        /\ Halted =>
              /\ status = "0stop"
              /\ acc = AppliedAlone(Len(prog.gs))

\* ML99_listMap(ML99_appl(v(F), v(3)), ML99_list(v(1, 2, a))), unwrapped,
\* has halted with 3 + 1, 3 + 2 and 3 + a.
C29_Witness ==
    /\ prog.kind = "map" /\ prog.ref = ML99_appl(v(<<Id("F")>>), v(<<Num(3)>>))
    /\ prog.gs = <<<<Num(1)>>, <<Num(2)>>, <<Id("a")>>>>
    /\ status = "0stop"
    /\ acc = <<Num(3), Id("+"), Num(1), Num(3), Id("+"), Num(2),
               Num(3), Id("+"), Id("a")>>

\* The values of the first j argument terms, each evaluated on its own.
RECURSIVE ValuesUpTo(_)
ValuesUpTo(j) ==
    IF j = 0 THEN <<>>
    ELSE Append(ValuesUpTo(j - 1), Run(prog.decl, prog.gs[j]).acc)

\* C30 (arguments first): in ML99_call(op, t1, ..., tn) whose terms reduce
\* to as many arguments as the arity of op, the operation fires at most once, and when it fires every operation of t1, ..., tn has fired
\* before it, those of t1 first, and it is handed the values of the terms in
\* the order written; the evaluation halts with the result of the operation
\* on these values.  In sumTree every expansion of ML99_add3 is handed three
\* numerals, the sums of the subtrees already computed.
C30_ArgumentsFirst ==
    /\ (prog.kind = "args" /\ Len(Split(Join(ValuesUpTo(Len(prog.gs))))) = Arity(prog.op)) =>
          LET n == Len(prog.gs)
              values == Join(ValuesUpTo(n))
          IN  /\ Cardinality(Firings(prog.op)) <= 1
              /\ \A i \in Firings(prog.op) :
                    /\ fired[i].args = values
                    /\ SubSeq(fired, 1, i - 1) = FiredUpTo(n)
              /\ Halted =>
                    /\ status = "0stop"
                    /\ Cardinality(Firings(prog.op)) = 1
                    /\ acc = Run(prog.decl, ML99_callUneval(prog.op, values)).acc
    /\ prog.kind = "tree" =>
          \A i \in Firings("ML99_add3") :
              \A a \in 1..3 : IsNum(Split(fired[i].args)[a])

\* ML99_call(F, ML99_call(F1, ML99_call(G, v(c))), ML99_call(G, v(b))) has
\* halted: G, F1 and G have fired, then F on the two values.
C30_Witness ==
    /\ prog.kind = "args" /\ prog.op = "F"
    /\ prog.gs = <<ML99_call("F1", ML99_call("G", v(<<Id("c")>>))),
                   ML99_call("G", v(<<Id("b")>>))>>
    /\ status = "0stop" /\ Len(fired) = 4
    /\ fired[1].op = "G" /\ fired[2].op = "F1" /\ fired[3].op = "G"
    /\ fired[4] = [op |-> "F",
                   args |-> Join(<<Run(prog.decl, prog.gs[1]).acc,
                                   Run(prog.decl, prog.gs[2]).acc>>)]

\* The handler a fired ML99_match or ML99_matchWithArgs selects, and the
\* payload it hands to it: the data of the choice, then the additional
\* arguments.
DispatchOf(f) ==
    LET a == Split(f.args)
        c == Split(a[1][1].xs)
    IN  [op |-> a[2][1].s \o c[1][1].s,
         args |-> IF f.op = "ML99_match" THEN Rest(c, 2)
                  ELSE Join(<<Rest(c, 2), Rest(a, 3)>>)]

\* The names handlers have: the matcher and a tag.
HandlerNames == Handlers \cup {"sumTree_leaf", "sumTree_node"}

\* The parenthesised groups among the tokens, at any depth, that have the
\* form of a closure over a handler: a numeral, then the name of a handler.
RECURSIVE ClosureShaped(_)
ClosureShaped(toks) ==
    UNION {(IF /\ toks[i].t = "paren"
               /\ Len(Split(toks[i].xs)) >= 2
               /\ IsNum(Split(toks[i].xs)[1])
               /\ IsIdent(Split(toks[i].xs)[2])
               /\ Split(toks[i].xs)[2][1].s \in HandlerNames
            THEN {toks[i]} ELSE {}) \cup ClosureShaped(toks[i].xs) :
           i \in 1..Len(toks)}

\* C31 (dispatch is direct invocation): the expansion that follows one of
\* ML99_match or ML99_matchWithArgs is that of the handler named by the
\* matcher and the tag, handed the whole payload at once; the handler has no
\* arity specifier, ML99_appl never fires, no closure is ever built, and
\* the evaluation halts with success.
C31_DirectDispatch ==
    (/\ prog.kind \in {"match", "matchWithArgs", "tree"}
     /\ prog.kind = "tree" \/ prog.op \in prog.decl) =>
        /\ \A i \in 1..Len(fired) :
              /\ fired[i].op \notin {"ML99_appl", "ML99_appl2", "ML99_appl3", "ML99_appl4"}
              /\ (fired[i].op \in {"ML99_match", "ML99_matchWithArgs"} /\ i < Len(fired)) =>
                    /\ fired[i + 1] = DispatchOf(fired[i])
                    /\ Arity(fired[i + 1].op) = 0
        /\ ClosureShaped(MachineTokens(M)) = {}
        /\ Halted => status = "0stop"

\* sumTree(node(leaf(v(1)), v(2), leaf(v(3)))) has halted with 6: the first
\* dispatch went to sumTree_node with the two leaves and the 2 between them,
\* the next to sumTree_leaf with 1.
C31_Witness ==
    /\ prog.kind = "tree" /\ prog.ref = <<Num(6)>>
    /\ status = "0stop" /\ acc = <<Num(6)>> /\ Len(fired) >= 7
    /\ fired[4].op = "ML99_match"
    /\ fired[5] = [op |-> "sumTree_node",
                   args |-> <<Paren(<<Id("leaf"), Comma, Num(1)>>), Comma, Num(2),
                              Comma, Paren(<<Id("leaf"), Comma, Num(3)>>)>>]
    /\ fired[6].op = "ML99_match"
    /\ fired[7] = [op |-> "sumTree_leaf", args |-> <<Num(1)>>]
    /\ Arity("sumTree_node") = 0 /\ Arity("sumTree_leaf") = 0

\* The invocation that is next: the continuation it returns to, the
\* operation and its arguments; nothing when no invocation is next.
NextInvocation ==
    IF G_0callUneval(M)
    THEN <<[k |-> k, k_cx |-> k_cx, folder |-> folder, acc |-> acc,
            tail |-> TailTerms(M), op |-> Split(TermArgs(HeadTerm(M)))[1][1].s,
            args |-> Rest(Split(TermArgs(HeadTerm(M))), 2)]>>
    ELSE IF G_0callUneval_K(M)
         THEN <<[k |-> k_cx[1].k, k_cx |-> Tail(k_cx), folder |-> k_cx[1].folder,
                 acc |-> k_cx[1].acc, tail |-> k_cx[1].tail, op |-> k_cx[1].op,
                 args |-> Accumulated(folder, acc)]>>
         ELSE <<>>

\* The evaluation from the invocation c on, with its expansion pasted with
\* the rest of the tail, and with its expansion evaluated and accumulated.
ViaK_0(c) ==
    RunM(prog.decl,
         Stage(ML99_PRIV_EVAL_0callUneval_K_0(M, c.k, c.k_cx, c.folder, c.acc, c.tail,
                                              Impl(prog.decl, c.op, c.args)),
               "0continue"), MaxRun)

ViaK_1(c) ==
    RunM(prog.decl,
         Stage(ML99_PRIV_EVAL_0callUneval_K_1(M, c.k, c.k_cx, c.folder, c.acc, c.tail,
                                              Impl(prog.decl, c.op, c.args)),
               "0continue"), MaxRun)

\* Two evaluations have ended alike: with the same status, and with the same
\* result where the status is one of success or of a fatal error.
SameOutcome(a, b) ==
    /\ a.status = b.status
    /\ a.status \in {"0stop", "fatal"} => a.acc = b.acc

\* C32 (the two paths of the continuation agree): whenever an invocation is
\* next, whatever its operation, its place and the rest of the tail, pasting
\* its expansion with the tail and evaluating its expansion on its own end
\* alike; and the evaluation of a program with an invocation halts as the
\* evaluation of the program with the expansion written in its place.
C32_PathsAgree ==
    /\ (prog.kind = "path" /\ NextInvocation # <<>>) =>
          /\ ViaK_0(NextInvocation[1]).status # "0continue"
          /\ SameOutcome(ViaK_0(NextInvocation[1]), ViaK_1(NextInvocation[1]))
    /\ (prog.kind = "path" /\ Halted) => SameOutcome(M, Run(prog.decl, prog.ref))

\* TM, whose expansion is three terms, is next among the arguments of T4:
\* both paths end with success.
C32_Witness ==
    /\ prog.kind = "path" /\ prog.tag = "arg" /\ prog.op = "TM"
    /\ prog.extra = <<Id("T4")>>
    /\ NextInvocation # <<>> /\ NextInvocation[1].op = "TM"
    /\ Len(Split(Impl(prog.decl, "TM", NextInvocation[1].args))) = 3
    /\ ViaK_0(NextInvocation[1]).status = "0stop"
    /\ ViaK_1(NextInvocation[1]).status = "0stop"
    /\ ViaK_0(NextInvocation[1]).acc # <<>>

====
